---- MODULE Spec2Model ----
(***************************************************************************)
(* lmr: the typed data-acquisition layer (source drivers and the query     *)
(* executor source::fetch), modelled from src/src/source/*.rs and          *)
(* src/src/value.rs, and the rendering pipeline (present_as, the table and *)
(* the chart component), modelled from src/src/presentation/*.rs.          *)
(*                                                                         *)
(* Text is kept as TLA+ strings.  A formatted error message is kept as a   *)
(* record of its format string (`text`) and the arguments substituted in   *)
(* it (`column`, `row`, `cause`), so that what a message says can be read  *)
(* back.  `rowIdx`/`colIdx`/`cell` of an error are not part of the message:*)
(* they record the loop position (values.len(), row.len()) at which the    *)
(* code returned.                                                          *)
(***************************************************************************)
EXTENDS Integers, Sequences, FiniteSets, TLC

\* ------------------------------------------------------------------ bounds
\* Queries in one run of source::fetch, rows of the table in such a run, and
\* rows of the table under direct driver calls.
MaxQuerys == 2
MaxRunRows == 1
MaxRows == 2

\* ------------------------------------------------------- value.rs / mod.rs
FieldType == {"String", "Integer", "Float", "Time", "Date", "DateTime"}

SourceType == {"Sqlite", "Postgres"}

Field(field, title, kind) == [field |-> field, title |-> title, kind |-> kind]

Query(sql, title, fields) == [sql |-> sql, title |-> title, fields |-> fields]

\* Option<TypedValue>: None, or a variant tag with its payload (as text).
None == [tag |-> "None", v |-> ""]

TypedValue(tag, v) == [tag |-> tag, v |-> v]

Value(inner, field) == [inner |-> inner, field |-> field]

\* ------------------------------------------------------ Result<_, String>
NoErr == [text |-> "", column |-> "", row |-> 0, cause |-> "",
          cell |-> FALSE, rowIdx |-> 0, colIdx |-> 0]

Ok(v) == [ok |-> TRUE, val |-> v, err |-> NoErr]

\* An error whose message has no column/row argument.
Err(text, cause) ==
  [ok |-> FALSE, val |-> <<>>,
   err |-> [text |-> text, column |-> "", row |-> 0, cause |-> cause,
            cell |-> FALSE, rowIdx |-> 0, colIdx |-> 0]]

\* An error raised while reading the cell at (rowIdx, colIdx); `column` and
\* `row` are the arguments the message is formatted with.
CellErr(text, column, row, cause, rowIdx, colIdx) ==
  [ok |-> FALSE, val |-> <<>>,
   err |-> [text |-> text, column |-> column, row |-> row, cause |-> cause,
            cell |-> TRUE, rowIdx |-> rowIdx, colIdx |-> colIdx]]

\* ---------------------------------------------------------------- backend
\* The table the tests of both drivers create:
\*   test (a text, b int, c float, d time, e date, f timestamptz)
\* A cell is SQL NULL or a literal; a row is one cell per column.
Columns == <<"a", "b", "c", "d", "e", "f">>

Cell(raw) == [null |-> FALSE, raw |-> raw]

Null == [null |-> TRUE, raw |-> ""]

NullRow == <<Null, Null, Null, Null, Null, Null>>

RowA == <<Cell("Ola mundo"), Cell("2024"), Cell("123.45"), Cell("23:55:19"),
          Cell("2024-05-15"), Cell("1996-12-19T16:39:57-08:00")>>

RowSet == {NullRow, RowA}

SeqsUpTo(S, n) == UNION {[1..k -> S] : k \in 0..n}

Tables(n) == SeqsUpTo(RowSet, n)

\* Position of a column name in the statement's columns, 0 when absent.
ColumnIndex(name) ==
  IF \E k \in 1..Len(Columns) : Columns[k] = name
  THEN CHOOSE k \in 1..Len(Columns) : Columns[k] = name
  ELSE 0

\* The statements the backend can prepare: the only table is `test`.
Prepares(sql) == sql = "select * from test"

\* What may go wrong in the backend during one fetch: nothing, the prepare,
\* or the execution (Postgres: the query; Sqlite: the `at`-th step).
Faults == {"none", "prepare", "exec"}

\* Postgres type of each column of `test`.
PgType(name) ==
  CASE name = "a" -> "VARCHAR"
    [] name = "b" -> "INT4"
    [] name = "c" -> "FLOAT8"
    [] name = "d" -> "TIME"
    [] name = "e" -> "DATE"
    [] name = "f" -> "TIMESTAMPTZ"
    [] OTHER -> "UNKNOWN"

\* -------------------------------------------------------- source/sqlite.rs
\* sqlite's conversion of a stored value to a number: the leading numeric
\* prefix of the text, 0 when there is none.
SqliteInt(raw) ==
  CASE raw = "2024" -> "2024"
    [] raw = "123.45" -> "123"
    [] raw = "23:55:19" -> "23"
    [] raw = "2024-05-15" -> "2024"
    [] raw = "1996-12-19T16:39:57-08:00" -> "1996"
    [] OTHER -> "0"

SqliteFloat(raw) ==
  CASE raw = "2024" -> "2024"
    [] raw = "123.45" -> "123.45"
    [] raw = "23:55:19" -> "23"
    [] raw = "2024-05-15" -> "2024"
    [] raw = "1996-12-19T16:39:57-08:00" -> "1996"
    [] OTHER -> "0"

\* NaiveTime::parse_from_str(raw, "%H:%M:%S"), NaiveDate::parse_from_str(raw,
\* "%Y-%m-%d") and DateTime::parse_from_rfc3339(raw) succeed on these texts.
ParsesAs(kind, raw) ==
  CASE kind = "Time" -> raw = "23:55:19"
    [] kind = "Date" -> raw = "2024-05-15"
    [] kind = "DateTime" -> raw = "1996-12-19T16:39:57-08:00"
    [] OTHER -> FALSE

\* Mutant of SqliteInner: columns are read as T instead of Option<T>, so a
\* NULL comes back as the default of the type.
SqliteInnerDefaults(col, cells, rowIdx, colIdx) ==
  LET idx == ColumnIndex(col.field) IN
  IF idx = 0
  THEN CellErr("Read column {} row {} failed: {}", col.field, colIdx,
               "the index is out of range", rowIdx, colIdx)
  ELSE LET raw == cells[idx].raw IN
       CASE col.kind = "Integer" -> Ok(TypedValue("Integer", SqliteInt(raw)))
         [] col.kind = "String" -> Ok(TypedValue("String", raw))
         [] col.kind = "Float" -> Ok(TypedValue("Float", SqliteFloat(raw)))
         [] OTHER ->
              IF cells[idx].null THEN Ok(None)
              ELSE IF ParsesAs(col.kind, raw)
              THEN Ok(TypedValue(col.kind, raw))
              ELSE CellErr("Error on parse the {} to time: {}", "", 0, raw,
                           rowIdx, colIdx)

\* The `let inner = match &col.kind {...}` of one column of the current row:
\* statement.read by column name, then the conversion of the kind.  rowIdx is
\* values.len() and colIdx is row.len() when the column is read.
SqliteInner(col, cells, rowIdx, colIdx) ==
  LET idx == ColumnIndex(col.field) IN
  IF idx = 0
  THEN CellErr("Read column {} row {} failed: {}", col.field, colIdx,
               "the index is out of range", rowIdx, colIdx)
  ELSE IF cells[idx].null
  THEN Ok(None)
  ELSE LET raw == cells[idx].raw IN
       CASE col.kind = "Integer" -> Ok(TypedValue("Integer", SqliteInt(raw)))
         [] col.kind = "String" -> Ok(TypedValue("String", raw))
         [] col.kind = "Float" -> Ok(TypedValue("Float", SqliteFloat(raw)))
         [] col.kind = "Time" ->
              IF ParsesAs("Time", raw) THEN Ok(TypedValue("Time", raw))
              ELSE CellErr("Error on parse the {} to time: {}", "", 0, raw,
                           rowIdx, colIdx)
         [] col.kind = "Date" ->
              IF ParsesAs("Date", raw) THEN Ok(TypedValue("Date", raw))
              ELSE CellErr("Error on parse the {} to date: {}", "", 0, raw,
                           rowIdx, colIdx)
         [] col.kind = "DateTime" ->
              IF ParsesAs("DateTime", raw) THEN Ok(TypedValue("DateTime", raw))
              ELSE CellErr("Error on parse the {} to datetime: {}", "", 0, raw,
                           rowIdx, colIdx)

\* The `for col in &query.fields` loop over one row; row is the Vec built so far.
RECURSIVE SqliteRow(_, _, _, _)
SqliteRow(fields, cells, rowIdx, row) ==
  IF Len(row) = Len(fields)
  THEN Ok(row)
  ELSE LET col == fields[Len(row) + 1]
           inner == SqliteInner(col, cells, rowIdx, Len(row))
       IN IF inner.ok
          THEN SqliteRow(fields, cells, rowIdx,
                         Append(row, Value(inner.val, col)))
          ELSE inner

\* The `while let Ok(State::Row) = statement.next()` loop; values is the Vec
\* built so far.  The loop ends when next() is Done and also when it is Err.
RECURSIVE SqliteRows(_, _, _, _, _)
SqliteRows(fields, tbl, fault, at, values) ==
  IF (fault = "exec" /\ at = Len(values)) \/ Len(values) >= Len(tbl)
  THEN Ok(values)
  ELSE LET row == SqliteRow(fields, tbl[Len(values) + 1], Len(values), <<>>)
       IN IF row.ok
          THEN SqliteRows(fields, tbl, fault, at, Append(values, row.val))
          ELSE row

\* SqliteDriver::fetch on a driver whose conn is Some (conn) or None.
SqliteFetch(conn, query, tbl, fault, at) ==
  IF ~conn
  THEN Err("Connection not established", "")
  ELSE IF fault = "prepare" \/ ~Prepares(query.sql)
  THEN Err("Prepare statement failed: {}", "no such table")
  ELSE SqliteRows(query.fields, tbl, fault, at, <<>>)

\* ------------------------------------------------------ source/postgres.rs
\* Row::try_get::<usize, Option<T>>: the Postgres types a Rust type accepts.
PgAccepts(rust) ==
  CASE rust = "i16" -> {"INT2"}
    [] rust = "i32" -> {"INT4"}
    [] rust = "i64" -> {"INT8"}
    [] rust = "f32" -> {"FLOAT4"}
    [] rust = "f64" -> {"FLOAT8"}
    [] rust = "Decimal" -> {"NUMERIC"}
    [] rust = "String" -> {"VARCHAR", "TEXT", "BPCHAR", "NAME", "UNKNOWN"}
    [] rust = "NaiveDate" -> {"DATE"}
    [] rust = "NaiveTime" -> {"TIME"}
    [] rust = "NaiveDateTime" -> {"TIMESTAMP"}
    [] rust = "DateTime<FixedOffset>" -> {"TIMESTAMPTZ"}

\* row.try_get::<usize, Option<rust>>(idx).map_err(..).map(|v| v.map(tag))
TryGet(rust, ty, cell, tag) ==
  IF ty \notin PgAccepts(rust)
  THEN Err("error deserializing column", ty)
  ELSE IF cell.null THEN Ok(None) ELSE Ok(TypedValue(tag, cell.raw))

\* Mutant of PgInner: the FLOAT8 arm wraps its value as TypedValue::Integer.
PgInnerFloatAsInteger(col, ty, cell) ==
  CASE col.kind = "Integer" ->
         CASE ty = "INT2" -> TryGet("i16", ty, cell, "Integer")
           [] ty = "INT4" -> TryGet("i32", ty, cell, "Integer")
           [] ty = "INT8" -> TryGet("i64", ty, cell, "Integer")
           [] OTHER -> Err("Invalid integer type {}", ty)
    [] col.kind = "String" -> TryGet("String", ty, cell, "String")
    [] col.kind = "Float" ->
         CASE ty = "FLOAT4" -> TryGet("f32", ty, cell, "Float")
           [] ty = "FLOAT8" -> TryGet("f64", ty, cell, "Integer")
           [] ty = "NUMERIC" -> TryGet("Decimal", ty, cell, "Float")
           [] OTHER -> Err("Invalid float type {}", ty)
    [] col.kind = "Date" -> TryGet("NaiveDate", ty, cell, "Date")
    [] col.kind = "Time" -> TryGet("NaiveTime", ty, cell, "Time")
    [] col.kind = "DateTime" ->
         CASE ty = "TIMESTAMPTZ" ->
                TryGet("DateTime<FixedOffset>", ty, cell, "DateTime")
           [] ty = "TIMESTAMP" -> TryGet("NaiveDateTime", ty, cell, "DateTime")
           [] OTHER -> Err("Invalid datetime type {}", ty)

\* The `let inner = match col.kind {...}` of one column of the current row,
\* before its error is wrapped.
PgInner(col, ty, cell) ==
  CASE col.kind = "Integer" ->
         CASE ty = "INT2" -> TryGet("i16", ty, cell, "Integer")
           [] ty = "INT4" -> TryGet("i32", ty, cell, "Integer")
           [] ty = "INT8" -> TryGet("i64", ty, cell, "Integer")
           [] OTHER -> Err("Invalid integer type {}", ty)
    [] col.kind = "String" -> TryGet("String", ty, cell, "String")
    [] col.kind = "Float" ->
         CASE ty = "FLOAT4" -> TryGet("f32", ty, cell, "Float")
           [] ty = "FLOAT8" -> TryGet("f64", ty, cell, "Float")
           [] ty = "NUMERIC" -> TryGet("Decimal", ty, cell, "Float")
           [] OTHER -> Err("Invalid float type {}", ty)
    [] col.kind = "Date" -> TryGet("NaiveDate", ty, cell, "Date")
    [] col.kind = "Time" -> TryGet("NaiveTime", ty, cell, "Time")
    [] col.kind = "DateTime" ->
         CASE ty = "TIMESTAMPTZ" ->
                TryGet("DateTime<FixedOffset>", ty, cell, "DateTime")
           [] ty = "TIMESTAMP" -> TryGet("NaiveDateTime", ty, cell, "DateTime")
           [] OTHER -> Err("Invalid datetime type {}", ty)

\* The first `for col in query.fields` loop: the first field that names no
\* column of the prepared statement, 0 when every field resolves.
RECURSIVE PgMissing(_, _)
PgMissing(fields, k) ==
  IF k > Len(fields) THEN 0
  ELSE IF ColumnIndex(fields[k].field) = 0 THEN k
  ELSE PgMissing(fields, k + 1)

\* The `for (col, idx, rcol) in &columns` loop over one row; r is the Vec
\* built so far.
RECURSIVE PgRow(_, _, _, _)
PgRow(fields, cells, rowIdx, r) ==
  IF Len(r) = Len(fields)
  THEN Ok(r)
  ELSE LET col == fields[Len(r) + 1]
           idx == ColumnIndex(col.field)
           inner == PgInner(col, PgType(col.field), cells[idx])
       IN IF inner.ok
          THEN PgRow(fields, cells, rowIdx, Append(r, Value(inner.val, col)))
          ELSE CellErr("Column {} row {} error: {}", col.field, Len(r),
                       inner.err.text, rowIdx, Len(r))

\* The `for row in qrows` loop; rows is the Vec built so far.
RECURSIVE PgRows(_, _, _)
PgRows(fields, tbl, rows) ==
  IF Len(rows) >= Len(tbl)
  THEN Ok(rows)
  ELSE LET r == PgRow(fields, tbl[Len(rows) + 1], Len(rows), <<>>)
       IN IF r.ok THEN PgRows(fields, tbl, Append(rows, r.val)) ELSE r

\* PostgresDriver::fetch on a driver whose conn is Some (conn) or None.
PostgresFetch(conn, query, tbl, fault, at) ==
  IF ~conn
  THEN Err("Connection not established", "")
  ELSE IF fault = "prepare" \/ ~Prepares(query.sql)
  THEN Err("Prepare statement failed: {}", "no such table")
  ELSE IF fault = "exec"
  THEN Err("Query failed: {}", "connection closed")
  ELSE LET k == PgMissing(query.fields, 1) IN
       IF k # 0
       THEN [ok |-> FALSE, val |-> <<>>,
             err |-> [text |-> "Column {} not found",
                      column |-> query.fields[k].field, row |-> 0,
                      cause |-> "", cell |-> FALSE, rowIdx |-> 0, colIdx |-> 0]]
       ELSE PgRows(query.fields, tbl, <<>>)

\* --------------------------------------------------------- source/mod.rs
\* The driver object: its kind and whether conn is Some.
DriverInit(k) == [kind |-> k, conn |-> FALSE]

\* Mutant of DriverFetch: fetch goes to the backend without the conn check.
DriverFetchUnchecked(driver, query, tbl, fault, at) ==
  IF driver.kind = "Sqlite"
  THEN SqliteFetch(TRUE, query, tbl, fault, at)
  ELSE PostgresFetch(TRUE, query, tbl, fault, at)

\* dyn Driver dispatch of fetch.
DriverFetch(driver, query, tbl, fault, at) ==
  IF driver.kind = "Sqlite"
  THEN SqliteFetch(driver.conn, query, tbl, fault, at)
  ELSE PostgresFetch(driver.conn, query, tbl, fault, at)

\* Mutant of Supported: the Postgres arm is taken whatever the build.
SupportedAny(k, feat) == k \in SourceType

\* get_driver: the kinds with a matching arm; the Postgres arm exists only
\* when the crate is built with the "postgres" feature.
Supported(k, feat) == k = "Sqlite" \/ (k = "Postgres" /\ feat)

\* SqliteDriver::connect / PostgresDriver::connect: what the call returns when
\* the backend accepts (up) or refuses the connection string.
ConnectResult(k, up) ==
  IF up THEN Ok(<<>>)
  ELSE IF k = "Sqlite" THEN Err("Sqlite connection failed: {}", "")
  ELSE Err("Postgres connection failed: {}", "")

\* The driver after connect returned res: conn is set only on success.
Connected(driver, res) ==
  IF res.ok THEN [driver EXCEPT !.conn = TRUE] ELSE driver

\* The statements the backend receives from one fetch call: none when the
\* driver returns at the conn check, else the prepare of query.sql.
BackendSees(driver, query) == IF driver.conn THEN <<query.sql>> ELSE <<>>

\* ------------------------------------------------------------------ inputs
FAll ==
  <<Field("a", "a", "String"), Field("b", "b", "Integer"),
    Field("c", "c", "Float"), Field("d", "d", "Time"),
    Field("e", "e", "Date"), Field("f", "f", "DateTime")>>

QAll == Query("select * from test", "Test", FAll)

QNoTable ==
  Query("select * from tusers", "Test 2",
        <<Field("name", "User name", "String")>>)

QNoColumn ==
  Query("select * from test", "No column",
        <<Field("a", "a", "String"), Field("g", "g", "Integer")>>)

QWrongType ==
  Query("select * from test", "Wrong type",
        <<Field("b", "b", "Integer"), Field("a", "a", "Integer")>>)

QWrongTime ==
  Query("select * from test", "Wrong time",
        <<Field("b", "b", "Integer"), Field("a", "a", "Time")>>)

QuerySet == {QAll, QNoTable, QNoColumn, QWrongType, QWrongTime}

\* The step at which an execution fault hits: Sqlite steps once per row and
\* once more for Done; Postgres runs the query as a whole.
FaultPoints(k, fault, tbl) ==
  IF fault = "exec" /\ k = "Sqlite" THEN 0..Len(tbl) ELSE {0}

\* ------------------------------------------------ presentation/formats.rs
\* A String of the presentation layer is kept as the sequence of the pieces
\* it was built from: literals of the code and the texts substituted in them.
\* Concatenation (push_str, format!) is \o.
OutputFormat == {"Plain", "Html", "Markdown"}

title1(format, text) ==
  CASE format = "Plain" -> <<"\n">> \o text \o <<"\n\n">>
    [] format = "Html" -> <<"<h1>">> \o text \o <<"</h1>\n">>
    [] format = "Markdown" -> <<"\n# ">> \o text \o <<"\n\n">>

title2(format, text) ==
  CASE format = "Plain" -> text \o <<"\n\n">>
    [] format = "Html" -> <<"<h3>">> \o text \o <<"</h3>\n">>
    [] format = "Markdown" -> <<"## ">> \o text \o <<"\n\n">>

simple(format, text) == text \o <<"\n">>

break_line(format) ==
  CASE format = "Plain" -> <<"\n">>
    [] format = "Html" -> <<"<br>\n">>
    [] format = "Markdown" -> <<"\n">>

\* The envelope put around the whole report: none but for Html.
body(format, text) ==
  CASE format = "Html" -> <<"<html><body>">> \o text \o <<"</body></html>">>
    [] OTHER -> text

\* ------------------------------------------------------------- value.rs
\* The text of a NaiveTime, NaiveDate and of a DateTime<FixedOffset>; a
\* String, an i64 and an f64 print as the text they are kept as.
to_string(value) ==
  CASE value.tag = "DateTime" /\ value.v = "1996-12-19T16:39:57-08:00" ->
         "1996-12-19 16:39:57 -08:00"
    [] OTHER -> value.v

\* The number a numeric text stands for.
Number(text) ==
  CASE text = "25" -> 25
    [] text = "28" -> 28
    [] text = "30" -> 30
    [] text = "2024" -> 2024
    [] OTHER -> 0

\* Result of the presentation layer: the error is a String (pieces).
Good(v) == [ok |-> TRUE, val |-> v, err |-> <<>>]

Fail(msg, v) == [ok |-> FALSE, val |-> v, err |-> msg]

\* The value as f32: the numeric variants convert, the others do not.
to_float(value) ==
  IF value.tag \in {"Integer", "Float"}
  THEN Good(Number(value.v))
  ELSE Fail(<<"Value is not a number">>, 0)

\* -------------------------------------------------- presentation/table.rs
RECURSIVE Flatten(_)
Flatten(texts) ==
  IF texts = <<>> THEN <<>> ELSE Head(texts) \o Flatten(Tail(texts))

\* Mutant of TableRecords: the header holds the fields' names.
TableRecordsFieldNames(query, rows) ==
  <<[k \in 1..Len(query.fields) |-> query.fields[k].field]>> \o
  [ri \in 1..Len(rows) |->
     [ci \in 1..Len(rows[ri]) |->
        IF rows[ri][ci].inner.tag = "None"
        THEN to_string(TypedValue("String", ""))
        ELSE to_string(rows[ri][ci].inner)]]

\* The cells of the table: the fields' titles, then per row the text of
\* each value, "" for an absent one.
TableRecords(query, rows) ==
  <<[k \in 1..Len(query.fields) |-> query.fields[k].title]>> \o
  [ri \in 1..Len(rows) |->
     [ci \in 1..Len(rows[ri]) |->
        IF rows[ri][ci].inner.tag = "None"
        THEN to_string(TypedValue("String", ""))
        ELSE to_string(rows[ri][ci].inner)]]

\* One line of a text table; the padding of the cells is left out.
TableLine(cells) ==
  Flatten([k \in 1..Len(cells) |-> <<"| ", cells[k], " ">>]) \o <<"|">>

\* The lines of a text table, with a line end between them.
JoinLines(lines) ==
  LET ended == Flatten([k \in 1..Len(lines) |-> lines[k] \o <<"\n">>]) IN
  SubSeq(ended, 1, Len(ended) - 1)

HtmlRow(tag, cells) ==
  <<"<tr>">> \o
  Flatten([k \in 1..Len(cells) |-> <<"<", tag, ">", cells[k], "</", tag, ">">>])
  \o <<"</tr>">>

TableRender(query, rows, format) ==
  LET recs == TableRecords(query, rows) IN
  CASE format = "Plain" ->
         JoinLines(<<<<"+---+">>>> \o
                   Flatten([k \in 1..Len(recs) |->
                              <<TableLine(recs[k]), <<"+---+">>>>]))
    [] format = "Markdown" ->
         JoinLines(<<TableLine(recs[1]), <<"|---|">>>> \o
                   [k \in 1..(Len(recs) - 1) |-> TableLine(recs[k + 1])])
    [] format = "Html" ->
         <<"<table class=\"lmr-table\">", "<thead>">> \o HtmlRow("th", recs[1])
         \o <<"</thead>", "<tbody>">> \o
         Flatten([k \in 1..(Len(recs) - 1) |-> HtmlRow("td", recs[k + 1])])
         \o <<"</tbody>", "</table>">>

\* ------------------------------------------------- presentation/charts.rs
ChartType == {"Bar", "Line", "Pizza"}

\* Option<String>, Option<ChartSeriesBy> and Option<Vec<String>>.
NoKeysBy == [some |-> FALSE, v |-> ""]

NoSeriesBy == [some |-> FALSE, v |-> [key |-> "", values |-> ""]]

NoSeries == [some |-> FALSE, v |-> <<>>]

Some(v) == [some |-> TRUE, v |-> v]

ChartSeriesBy(key, values) == [key |-> key, values |-> values]

ChartComponent(kind_, keys_by, series_by, series) ==
  [kind |-> kind_, keys_by |-> keys_by, series_by |-> series_by,
   series |-> series]

\* charts_rs::Series::new(name, data)
Series(name, data) == [name |-> name, data |-> data]

\* row.iter().find(|v| v.field.field == by): the position of the first
\* value of the row read from field `by`, 0 when there is none.
FindValue(by, row) ==
  IF \E k \in 1..Len(row) : row[k].field.field = by
  THEN CHOOSE k \in 1..Len(row) :
         /\ row[k].field.field = by
         /\ \A j \in 1..(k - 1) : row[j].field.field # by
  ELSE 0

FieldNotFound(name) == <<"Field ", name, " not found">>

\* Mutant of get_key_by: an absent value is named "None".
get_key_by_names_absent(by, row) ==
  LET col == FindValue(by, row) IN
  IF col = 0 THEN Fail(FieldNotFound(by), "")
  ELSE IF row[col].inner.tag # "None"
       THEN Good(to_string(row[col].inner))
       ELSE Good("None")

get_key_by(by, row) ==
  LET col == FindValue(by, row) IN
  IF col = 0 THEN Fail(FieldNotFound(by), "")
  ELSE IF row[col].inner.tag # "None"
       THEN Good(to_string(row[col].inner))
       ELSE Good("")

\* Mutant of get_value_by: a field the row does not have counts as 0.0.
get_value_by_or_zero(by, row) ==
  LET col == FindValue(by, row) IN
  IF col = 0 THEN Good(0)
  ELSE IF row[col].inner.tag # "None"
       THEN to_float(row[col].inner)
       ELSE Good(0)

get_value_by(by, row) ==
  LET col == FindValue(by, row) IN
  IF col = 0 THEN Fail(FieldNotFound(by), 0)
  ELSE IF row[col].inner.tag # "None"
       THEN to_float(row[col].inner)
       ELSE Good(0)

Contains(seq, x) == \E k \in 1..Len(seq) : seq[k] = x

\* Mutant of DistinctBy: no contains check, every row's value is pushed.
RECURSIVE DistinctByKeepsAll(_, _, _, _)
DistinctByKeepsAll(by, data, k, acc) ==
  IF k > Len(data) THEN Good(acc)
  ELSE LET value == get_key_by(by, data[k]) IN
       IF ~value.ok THEN Fail(value.err, <<>>)
       ELSE DistinctByKeepsAll(by, data, k + 1, Append(acc, value.val))

\* for row in data { let v = get_key_by(by, row)?; if !acc.contains(&v)
\* { acc.push(v) } }, from row k on.
RECURSIVE DistinctBy(_, _, _, _)
DistinctBy(by, data, k, acc) ==
  IF k > Len(data) THEN Good(acc)
  ELSE LET value == get_key_by(by, data[k]) IN
       IF ~value.ok THEN Fail(value.err, <<>>)
       ELSE DistinctBy(by, data, k + 1,
                       IF Contains(acc, value.val) THEN acc
                       ELSE Append(acc, value.val))

\* Mutant of prepare_keys: keys_by is required for every kind.
prepare_keys_required_for_all(self, data) ==
  IF ~self.keys_by.some
  THEN Fail(<<"Keys must be defined">>, <<>>)
  ELSE DistinctBy(self.keys_by.v, data, 1, <<>>)

prepare_keys(self, data) ==
  IF ~self.keys_by.some /\ self.kind # "Pizza"
  THEN Fail(<<"Keys must be defined">>, <<>>)
  ELSE IF self.keys_by.some
       THEN DistinctBy(self.keys_by.v, data, 1, <<>>)
       ELSE Good(<<>>)

\* query.fields.iter().find(|f| f.field == *serie)
FindField(query, serie) ==
  IF \E k \in 1..Len(query.fields) : query.fields[k].field = serie
  THEN CHOOSE k \in 1..Len(query.fields) :
         /\ query.fields[k].field = serie
         /\ \A j \in 1..(k - 1) : query.fields[j].field # serie
  ELSE 0

\* for row in data { values.push(get_value_by(by, row)?) }, from row k on.
RECURSIVE RowValues(_, _, _, _)
RowValues(by, data, k, values) ==
  IF k > Len(data) THEN Good(values)
  ELSE LET value == get_value_by(by, data[k]) IN
       IF ~value.ok THEN Fail(value.err, <<>>)
       ELSE RowValues(by, data, k + 1, Append(values, value.val))

\* Mutant of ExplicitSeries: a series is named by the field's name, not by
\* its display title.
RECURSIVE ExplicitSeriesNamedByField(_, _, _, _, _)
ExplicitSeriesNamedByField(dseries, query, data, k, series) ==
  IF k > Len(dseries) THEN Good(series)
  ELSE LET col == FindField(query, dseries[k]) IN
       IF col = 0 THEN Fail(FieldNotFound(dseries[k]), <<>>)
       ELSE LET values == RowValues(query.fields[col].field, data, 1, <<>>) IN
            IF ~values.ok THEN Fail(values.err, <<>>)
            ELSE ExplicitSeriesNamedByField(dseries, query, data, k + 1,
                   Append(series, Series(query.fields[col].field, values.val)))

\* Explicit series: for serie in dseries { ... }, from serie k on.
RECURSIVE ExplicitSeries(_, _, _, _, _)
ExplicitSeries(dseries, query, data, k, series) ==
  IF k > Len(dseries) THEN Good(series)
  ELSE LET col == FindField(query, dseries[k]) IN
       IF col = 0 THEN Fail(FieldNotFound(dseries[k]), <<>>)
       ELSE LET values == RowValues(query.fields[col].field, data, 1, <<>>) IN
            IF ~values.ok THEN Fail(values.err, <<>>)
            ELSE ExplicitSeries(dseries, query, data, k + 1,
                   Append(series, Series(query.fields[col].title, values.val)))

\* values.iter_mut().find(|(k, _)| k == &key)
FindKey(values, key) ==
  IF \E p \in 1..Len(values) : values[p].k = key
  THEN CHOOSE p \in 1..Len(values) :
         /\ values[p].k = key
         /\ \A j \in 1..(p - 1) : values[j].k # key
  ELSE 0

\* Mutant of SerieValues: the values of rows sharing a key are summed.
RECURSIVE SerieValuesSummed(_, _, _, _, _, _)
SerieValuesSummed(serie, series_by, keys_by, data, k, values) ==
  IF k > Len(data) THEN Good(values)
  ELSE LET serie_key == get_key_by(series_by.key, data[k]) IN
       IF ~serie_key.ok THEN Fail(serie_key.err, <<>>)
       ELSE IF serie_key.val # serie
       THEN SerieValuesSummed(serie, series_by, keys_by, data, k + 1, values)
       ELSE LET value == get_value_by(series_by.values, data[k])
                key == get_key_by(keys_by, data[k])
            IN IF ~value.ok THEN Fail(value.err, <<>>)
               ELSE IF ~key.ok THEN Fail(key.err, <<>>)
               ELSE LET p == FindKey(values, key.val) IN
                    SerieValuesSummed(serie, series_by, keys_by, data, k + 1,
                      IF p = 0 THEN values
                      ELSE [values EXCEPT ![p] =
                              [k |-> key.val, v |-> values[p].v + value.val]])

\* Mutant of SerieValues: the rows are not filtered by their serie.
RECURSIVE SerieValuesOfAnySerie(_, _, _, _, _, _)
SerieValuesOfAnySerie(serie, series_by, keys_by, data, k, values) ==
  IF k > Len(data) THEN Good(values)
  ELSE LET serie_key == get_key_by(series_by.key, data[k]) IN
       IF ~serie_key.ok THEN Fail(serie_key.err, <<>>)
       ELSE IF FALSE
       THEN SerieValuesOfAnySerie(serie, series_by, keys_by, data, k + 1, values)
       ELSE LET value == get_value_by(series_by.values, data[k])
                key == get_key_by(keys_by, data[k])
            IN IF ~value.ok THEN Fail(value.err, <<>>)
               ELSE IF ~key.ok THEN Fail(key.err, <<>>)
               ELSE LET p == FindKey(values, key.val) IN
                    SerieValuesOfAnySerie(serie, series_by, keys_by, data, k + 1,
                      IF p = 0 THEN values
                      ELSE [values EXCEPT ![p] = [k |-> key.val, v |-> value.val]])

\* Grouped series, the inner loop over the rows for one serie, from row k on:
\* a row of the serie overwrites the value at the position of its key.
RECURSIVE SerieValues(_, _, _, _, _, _)
SerieValues(serie, series_by, keys_by, data, k, values) ==
  IF k > Len(data) THEN Good(values)
  ELSE LET serie_key == get_key_by(series_by.key, data[k]) IN
       IF ~serie_key.ok THEN Fail(serie_key.err, <<>>)
       ELSE IF serie_key.val # serie
       THEN SerieValues(serie, series_by, keys_by, data, k + 1, values)
       ELSE LET value == get_value_by(series_by.values, data[k])
                key == get_key_by(keys_by, data[k])
            IN IF ~value.ok THEN Fail(value.err, <<>>)
               ELSE IF ~key.ok THEN Fail(key.err, <<>>)
               ELSE LET p == FindKey(values, key.val) IN
                    SerieValues(serie, series_by, keys_by, data, k + 1,
                      IF p = 0 THEN values
                      ELSE [values EXCEPT ![p] = [k |-> key.val, v |-> value.val]])

\* Grouped series: for serie in dseries { ... }, from serie k on.
RECURSIVE GroupedSeries(_, _, _, _, _, _, _)
GroupedSeries(dseries, series_by, keys_by, keys, data, k, series) ==
  IF k > Len(dseries) THEN Good(series)
  ELSE LET values == SerieValues(dseries[k], series_by, keys_by, data, 1,
                       [p \in 1..Len(keys) |-> [k |-> keys[p], v |-> 0]])
       IN IF ~values.ok THEN Fail(values.err, <<>>)
          ELSE GroupedSeries(dseries, series_by, keys_by, keys, data, k + 1,
                 Append(series,
                        Series(dseries[k],
                               [p \in 1..Len(keys) |-> values.val[p].v])))

prepare_series(self, query, keys, data) ==
  IF ~self.series.some /\ ~self.series_by.some
  THEN Fail(<<"Series must be defined">>, <<>>)
  ELSE
    LET explicit == IF self.series.some
                    THEN ExplicitSeries(self.series.v, query, data, 1, <<>>)
                    ELSE Good(<<>>)
    IN
    IF ~explicit.ok THEN explicit
    ELSE IF ~self.series_by.some THEN explicit
    ELSE IF ~self.keys_by.some THEN Fail(<<"Keys must be defined">>, <<>>)
    ELSE
      LET dseries == DistinctBy(self.series_by.v.key, data, 1, <<>>) IN
      IF ~dseries.ok THEN Fail(dseries.err, <<>>)
      ELSE GroupedSeries(dseries.val, self.series_by.v, self.keys_by.v, keys,
                         data, 1, explicit.val)

\* RenderedContent { content, images } with nothing in it.
NoContent == [content |-> <<>>, images |-> <<>>]

ImagePresented(cid, mime, data) == [cid |-> cid, mime |-> mime, data |-> data]

\* Mutant of ChartRender: the format is checked after the keys and the
\* series are derived.
ChartRenderChecksFormatLast(self, query, data, format, svg, png, cid) ==
  LET keys == prepare_keys(self, data) IN
  IF ~keys.ok THEN Fail(keys.err, NoContent)
  ELSE
    LET series == prepare_series(self, query, keys.val, data) IN
    IF ~series.ok THEN Fail(series.err, NoContent)
    ELSE IF format # "Html"
    THEN Fail(<<"Output format without chart support">>, NoContent)
    ELSE IF ~svg
    THEN Fail(<<"Error generating chart: ", "svg">>, NoContent)
    ELSE IF ~png
    THEN Fail(<<"Error converting SVG to PNG: ", "png">>, NoContent)
    ELSE Good([content |-> <<"<img class=\"lmr-img\" title=\"", query.title,
                             "\" src=\"cid:", cid, "\">">>,
               images |-> <<ImagePresented(cid, "image/png",
                              [kind |-> self.kind, series |-> series.val,
                               keys |-> IF self.kind = "Pizza" THEN <<>>
                                        ELSE keys.val])>>])

\* ChartComponent::render. The chart library and the PNG conversion are
\* outside: `svg` and `png` say whether they succeed; `cid` is the fresh
\* Uuid.
ChartRender(self, query, data, format, svg, png, cid) ==
  IF format # "Html"
  THEN Fail(<<"Output format without chart support">>, NoContent)
  ELSE
    LET keys == prepare_keys(self, data) IN
    IF ~keys.ok THEN Fail(keys.err, NoContent)
    ELSE
      LET series == prepare_series(self, query, keys.val, data) IN
      IF ~series.ok THEN Fail(series.err, NoContent)
      ELSE IF ~svg
      THEN Fail(<<"Error generating chart: ", "svg">>, NoContent)
      ELSE IF ~png
      THEN Fail(<<"Error converting SVG to PNG: ", "png">>, NoContent)
      ELSE Good([content |-> <<"<img class=\"lmr-img\" title=\"", query.title,
                               "\" src=\"cid:", cid, "\">">>,
                 images |-> <<ImagePresented(cid, "image/png",
                                [kind |-> self.kind, series |-> series.val,
                                 keys |-> IF self.kind = "Pizza" THEN <<>>
                                          ELSE keys.val])>>])

\* --------------------------------------------------- presentation/mod.rs
\* A component of the report: the table, or a chart with its configuration.
TableComponent == [type |-> "Table", chart |-> ChartComponent("Bar", NoKeysBy, NoSeriesBy, NoSeries)]

Chart(self) == [type |-> "Chart", chart |-> self]

\* component.render(query, rows, format): the table never fails and has no
\* images.
Render(component, query, rows, format, svg, png, cid) ==
  IF component.type = "Table"
  THEN Good([content |-> TableRender(query, rows, format), images |-> <<>>])
  ELSE ChartRender(component.chart, query, rows, format, svg, png, cid)

\* Mutant of present_query_as: no check of rows.len() > 0, the component
\* renders an empty row list.
present_query_as_renders_empty(query, data, format, rendered) ==
  LET head == title2(format, <<"Query: ", query.title>>) IN
  IF data.ok
  THEN IF rendered.ok
       THEN Good([content |-> head \o simple(format, rendered.val.content),
                  images |-> rendered.val.images])
       ELSE Good([content |->
                    head \o simple(format, <<"Error on rendering: ">>
                                           \o rendered.err),
                  images |-> <<>>])
  ELSE Good([content |-> head \o simple(format, <<"Query falied: ", data.err>>),
             images |-> <<>>])

\* Mutant of present_query_as: a render error is returned to present_as
\* instead of being written in the section.
present_query_as_propagates(query, data, format, rendered) ==
  LET head == title2(format, <<"Query: ", query.title>>) IN
  IF data.ok
  THEN IF Len(data.val) > 0
       THEN IF rendered.ok
            THEN Good([content |-> head \o simple(format, rendered.val.content),
                       images |-> rendered.val.images])
            ELSE Fail(rendered.err, NoContent)
       ELSE Good([content |-> head \o simple(format, <<"Empty result">>),
                  images |-> <<>>])
  ELSE Good([content |-> head \o simple(format, <<"Query falied: ", data.err>>),
             images |-> <<>>])

\* present_query_as, given what component.render returns when it is called.
present_query_as(query, data, format, rendered) ==
  LET head == title2(format, <<"Query: ", query.title>>) IN
  IF data.ok
  THEN IF Len(data.val) > 0
       THEN IF rendered.ok
            THEN Good([content |-> head \o simple(format, rendered.val.content),
                       images |-> rendered.val.images])
            ELSE Good([content |->
                         head \o simple(format, <<"Error on rendering: ">>
                                                \o rendered.err),
                       images |-> <<>>])
       ELSE Good([content |-> head \o simple(format, <<"Empty result">>),
                  images |-> <<>>])
  ELSE Good([content |-> head \o simple(format, <<"Query falied: ", data.err>>),
             images |-> <<>>])

\* Whether present_query_as calls component.render.
Renders(data) == data.ok /\ Len(data.val) > 0

Footer == "Consider support the project at https://github.com/fernandobatels/lmr"

DataPresented(is_html, content, images) ==
  [ok |-> TRUE, is_html |-> is_html, content |-> content, images |-> images]

\* ------------------------------------------------ queries and rows given
\* The query of the presentation tests, with a field to group by and a second
\* numeric field.
UsersQuery ==
  Query("select * from users", "Title test",
        <<Field("name", "User name", "String"), Field("team", "Team", "String"),
          Field("age", "Age", "Integer"), Field("score", "Score", "Integer")>>)

SalesQuery == Query("select * from sales", "Sales", UsersQuery.fields)

\* The same fields under other display titles.
PeopleQuery ==
  Query("select * from users", "People",
        <<Field("name", "Name", "String"), Field("team", "Group", "String"),
          Field("age", "Years", "Integer"), Field("score", "Points", "Integer")>>)

UserRow(name, team, age, score) ==
  <<Value(name, UsersQuery.fields[1]), Value(team, UsersQuery.fields[2]),
    Value(age, UsersQuery.fields[3]), Value(score, UsersQuery.fields[4])>>

\* Rows with a repeated key, a repeated (serie, key) pair with another value,
\* an empty key and absent values.
UserRows ==
  {UserRow(TypedValue("String", "john.abc"), TypedValue("String", "x"),
           TypedValue("Integer", "30"), TypedValue("Integer", "2024")),
   UserRow(TypedValue("String", "jane.abc"), TypedValue("String", "x"),
           TypedValue("Integer", "25"), None),
   UserRow(TypedValue("String", "jane.abc"), TypedValue("String", "x"),
           TypedValue("Integer", "28"), TypedValue("Integer", "30")),
   UserRow(TypedValue("String", ""), TypedValue("String", "y"),
           TypedValue("Integer", "30"), None),
   UserRow(None, TypedValue("String", "y"), None, TypedValue("Integer", "25"))}

TwoUsers ==
  <<UserRow(TypedValue("String", "john.abc"), TypedValue("String", "x"),
            TypedValue("Integer", "30"), TypedValue("Integer", "2024")),
    UserRow(TypedValue("String", "jane.abc"), TypedValue("String", "x"),
            TypedValue("Integer", "25"), None)>>

\* ------------------------------------------------------------------- state
VARIABLES
  kind,       \* source.kind
  feature,    \* whether the crate is built with the "postgres" feature
  reachable,  \* whether the backend accepts source.conn
  table,      \* the rows of table test
  querys,     \* the queries given to source::fetch
  driver,     \* the driver object
  pc,         \* position of source::fetch, or "api" for direct driver calls
  i,          \* source::fetch: the queries the for loop has taken so far
  r,          \* source::fetch: the Vec of (query, result) built so far
  ret,        \* source::fetch: the returned value
  inflight,   \* driver.fetch calls started and not yet returned
  log,        \* source::fetch: the driver calls made so far, in order;
              \* direct calls: the connect outcomes seen so far
  faults,     \* the backend fault met by each returned fetch
  call,       \* the last direct driver call and its result
  pres,       \* present_as: its arguments, loop position, locals and result
  chart,      \* a ChartComponent, its data and the last call made on it
  config      \* main: the configured queries, its position and its locals

vars == <<kind, feature, reachable, table, querys, driver, pc, i, r, ret,
          inflight, log, faults, call, pres, chart, config>>

\* No run of main.
NoConfig ==
  [pc |-> "idle", querys |-> <<>>, pairs |-> <<>>, data |-> <<>>,
   ndata |-> <<>>]

\* No run of present_as.
NoPres ==
  [pc |-> "idle", title |-> "", format |-> "Plain", data |-> <<>>, idx |-> 0,
   r |-> <<>>, images |-> <<>>, renders |-> <<>>, sections |-> <<>>,
   ret |-> [ok |-> FALSE, is_html |-> FALSE, content |-> <<>>,
            images |-> <<>>]]

\* No call on a chart component.
NoChartCall ==
  [op |-> "none", format |-> "Plain", keys |-> <<>>,
   res |-> Fail(<<>>, <<>>), rendered |-> Fail(<<>>, NoContent)]

NoChart ==
  [pc |-> "idle",
   self |-> ChartComponent("Bar", NoKeysBy, NoSeriesBy, NoSeries),
   query |-> UsersQuery, data |-> <<>>, call |-> NoChartCall]

NoDriver == [kind |-> "None", conn |-> FALSE]

NoRet == [ok |-> FALSE, val |-> <<>>, err |-> NoErr]

NoCall ==
  [op |-> "none", before |-> FALSE, query |-> QNoTable, fault |-> "none",
   at |-> 0, res |-> NoRet, sent |-> <<>>]

Event(op, n) == [op |-> op, n |-> n]

\* ------------------------------------------------------ source::fetch (run)
Init ==
  /\ kind \in SourceType
  /\ feature \in BOOLEAN
  /\ reachable \in BOOLEAN
  /\ table \in Tables(MaxRunRows)
  /\ querys \in SeqsUpTo(QuerySet, MaxQuerys)
  /\ driver = NoDriver
  /\ pc = "start"
  /\ i = 0
  /\ r = <<>>
  /\ ret = NoRet
  /\ inflight = 0
  /\ log = <<>>
  /\ faults = <<>>
  /\ call = NoCall
  /\ config = NoConfig
  /\ pres = NoPres
  /\ chart = NoChart

\* let mut driver = get_driver(source.kind)?;
GetDriver ==
  /\ pc = "start"
  /\ IF Supported(kind, feature)
     THEN /\ driver' = DriverInit(kind)
          /\ pc' = "connect"
          /\ UNCHANGED ret
     ELSE /\ ret' = Err("Not supported kind", "")
          /\ pc' = "returned"
          /\ UNCHANGED driver
  /\ UNCHANGED <<config, pres, chart, kind, feature, reachable, table, querys, i, r, inflight,
                 log, faults, call>>

\* Mutant of Connect: the result of connect is dropped instead of returned.
ConnectIgnoresFailure ==
  /\ pc = "connect"
  /\ log' = Append(log, Event("connect", 0))
  /\ driver' = Connected(driver, ConnectResult(driver.kind, reachable))
  /\ pc' = "loop"
  /\ UNCHANGED <<config, pres, chart, kind, feature, reachable, table, querys, i, r, ret, inflight,
                 faults, call>>

\* driver.connect(source.conn).await?;
Connect ==
  /\ pc = "connect"
  /\ log' = Append(log, Event("connect", 0))
  /\ LET res == ConnectResult(driver.kind, reachable) IN
     /\ driver' = Connected(driver, res)
     /\ IF res.ok
        THEN pc' = "loop" /\ UNCHANGED ret
        ELSE pc' = "returned" /\ ret' = res
  /\ UNCHANGED <<config, pres, chart, kind, feature, reachable, table, querys, i, r, inflight,
                 faults, call>>

\* Mutant of FetchCall: the next fetch is started without awaiting the last.
FetchCallPipelined ==
  /\ pc \in {"loop", "await"}
  /\ i < Len(querys)
  /\ i' = i + 1
  /\ inflight' = inflight + 1
  /\ log' = Append(log, Event("fetch", i + 1))
  /\ pc' = "await"
  /\ UNCHANGED <<config, pres, chart, kind, feature, reachable, table, querys, driver, r, ret,
                 faults, call>>

\* for query in querys { ... driver.fetch(query.clone()) : the call is made
FetchCall ==
  /\ pc = "loop"
  /\ i < Len(querys)
  /\ i' = i + 1
  /\ inflight' = inflight + 1
  /\ log' = Append(log, Event("fetch", i + 1))
  /\ pc' = "await"
  /\ UNCHANGED <<config, pres, chart, kind, feature, reachable, table, querys, driver, r, ret,
                 faults, call>>

\* Mutant of FetchReturn: only successful results are pushed.
FetchReturnSkipsFailed ==
  /\ pc = "await"
  /\ \E fault \in Faults :
       \E at \in FaultPoints(driver.kind, fault, table) :
         LET query == querys[i]
             result == DriverFetch(driver, query, table, fault, at)
         IN /\ r' = IF result.ok
                    THEN Append(r, [query |-> query, result |-> result])
                    ELSE r
            /\ faults' = IF result.ok
                         THEN Append(faults, [fault |-> fault, at |-> at])
                         ELSE faults
  /\ inflight' = inflight - 1
  /\ log' = Append(log, Event("fetched", i))
  /\ pc' = "loop"
  /\ UNCHANGED <<config, pres, chart, kind, feature, reachable, table, querys, driver, i, ret,
                 call>>

\* Mutant of FetchReturn: a failed fetch drops the driver's connection.
FetchReturnDropsConn ==
  /\ pc = "await"
  /\ \E fault \in Faults :
       \E at \in FaultPoints(driver.kind, fault, table) :
         LET query == querys[i]
             result == DriverFetch(driver, query, table, fault, at)
         IN /\ r' = Append(r, [query |-> query, result |-> result])
            /\ faults' = Append(faults, [fault |-> fault, at |-> at])
            /\ driver' = IF result.ok THEN driver
                         ELSE [driver EXCEPT !.conn = FALSE]
  /\ inflight' = inflight - 1
  /\ log' = Append(log, Event("fetched", i))
  /\ pc' = "loop"
  /\ UNCHANGED <<config, pres, chart, kind, feature, reachable, table, querys, i, ret, call>>

\* ... .await; r.push((query, result)); } : the call returns
FetchReturn ==
  /\ pc = "await"
  /\ \E fault \in Faults :
       \E at \in FaultPoints(driver.kind, fault, table) :
         LET query == querys[i]
             result == DriverFetch(driver, query, table, fault, at)
         IN /\ r' = Append(r, [query |-> query, result |-> result])
            /\ faults' = Append(faults, [fault |-> fault, at |-> at])
  /\ inflight' = inflight - 1
  /\ log' = Append(log, Event("fetched", i))
  /\ pc' = "loop"
  /\ UNCHANGED <<config, pres, chart, kind, feature, reachable, table, querys, driver, i, ret,
                 call>>

\* Ok(r)
Return ==
  /\ pc = "loop"
  /\ i = Len(querys)
  /\ ret' = Ok(r)
  /\ pc' = "returned"
  /\ UNCHANGED <<config, pres, chart, kind, feature, reachable, table, querys, driver, i, r,
                 inflight, log, faults, call>>

Next == GetDriver \/ Connect \/ FetchCall \/ FetchReturn \/ Return

Spec == Init /\ [][Next]_vars

\* ------------------------------------------- the Driver trait, called directly
\* A driver made by SqliteDriver::init() or PostgresDriver::init(), then any
\* sequence of connect and fetch calls, as the drivers' tests make them.
InitDriver ==
  /\ kind \in SourceType
  /\ feature = TRUE
  /\ reachable \in BOOLEAN
  /\ table \in Tables(MaxRows)
  /\ querys = <<>>
  /\ driver = DriverInit(kind)
  /\ pc = "api"
  /\ i = 0
  /\ r = <<>>
  /\ ret = NoRet
  /\ inflight = 0
  /\ log = <<>>
  /\ faults = <<>>
  /\ call = NoCall
  /\ config = NoConfig
  /\ pres = NoPres
  /\ chart = NoChart

\* driver.connect(conn).await
ApiConnect ==
  /\ pc = "api"
  /\ LET res == ConnectResult(driver.kind, reachable)
         seen == Event(IF res.ok THEN "connected" ELSE "refused", 0)
     IN
     /\ driver' = Connected(driver, res)
     /\ call' = [op |-> "connect", before |-> driver.conn, query |-> QNoTable,
                 fault |-> "none", at |-> 0, res |-> res, sent |-> <<>>]
     /\ log' = IF \E p \in 1..Len(log) : log[p] = seen
                THEN log ELSE Append(log, seen)
  /\ UNCHANGED <<config, pres, chart, kind, feature, reachable, table, querys, pc, i, r, ret,
                 inflight, faults>>

\* driver.fetch(query).await
ApiFetch ==
  /\ pc = "api"
  /\ \E query \in QuerySet :
       \E fault \in Faults :
         \E at \in FaultPoints(driver.kind, fault, table) :
           call' = [op |-> "fetch", before |-> driver.conn, query |-> query,
                    fault |-> fault, at |-> at,
                    res |-> DriverFetch(driver, query, table, fault, at),
                    sent |-> BackendSees(driver, query)]
  /\ UNCHANGED <<config, pres, chart, kind, feature, reachable, table, querys, driver, pc, i, r,
                 ret, inflight, log, faults>>

NextDriver == ApiConnect \/ ApiFetch

SpecDriver == InitDriver /\ [][NextDriver]_vars

\* ------------------------------------------------------ the report: present_as
\* Entries of one report, and rows given to one chart.
MaxData == 2
MaxChartRows == 3

\* Result<Vec<Vec<Value>>, String> of a query, as source::fetch gives it.
Fetched(rows) == [ok |-> TRUE, val |-> rows, err |-> ""]

FetchFailed(e) == [ok |-> FALSE, val |-> <<>>, err |-> e]

Entry(query, comp, result) == [query |-> query, comp |-> comp, result |-> result]

BarByName ==
  ChartComponent("Bar", Some("name"), NoSeriesBy, Some(<<"age">>))

BarNoSeries == ChartComponent("Bar", Some("name"), NoSeriesBy, NoSeries)

Entries ==
  {Entry(UsersQuery, TableComponent, Fetched(TwoUsers)),
   Entry(UsersQuery, TableComponent, Fetched(<<>>)),
   Entry(SalesQuery, TableComponent, FetchFailed("Table 'users' not found")),
   Entry(UsersQuery, Chart(BarByName), Fetched(TwoUsers)),
   Entry(SalesQuery, Chart(BarNoSeries), Fetched(TwoUsers)),
   Entry(SalesQuery, Chart(BarByName), Fetched(<<>>)),
   Entry(UsersQuery, Chart(BarByName), FetchFailed("Table 'users' not found"))}

\* What the chart library and the PNG conversion do on one render.
Outcomes == {"ok", "svg", "png"}

\* Uuid::new_v4(): some identifier not handed out before.
CidName(n) ==
  CASE n = 1 -> "uuid-1" [] n = 2 -> "uuid-2" [] n = 3 -> "uuid-3"
    [] OTHER -> "uuid-4"

FreshCids(images) ==
  {CidName(n) : n \in 1..(MaxData + 1)} \ {images[k].cid : k \in 1..Len(images)}

InitPresent ==
  /\ kind = "Sqlite"
  /\ feature = TRUE
  /\ reachable = TRUE
  /\ table = <<>>
  /\ querys = <<>>
  /\ driver = NoDriver
  /\ pc = "idle"
  /\ i = 0
  /\ r = <<>>
  /\ ret = NoRet
  /\ inflight = 0
  /\ log = <<>>
  /\ faults = <<>>
  /\ call = NoCall
  /\ config = NoConfig
  /\ chart = NoChart
  /\ \E title \in {"Project Name"}, format \in OutputFormat,
        data \in SeqsUpTo(Entries, MaxData) :
       pres = [NoPres EXCEPT !.pc = "start", !.title = title,
                             !.format = format, !.data = data]

driverVars == <<kind, feature, reachable, table, querys, driver, pc, i, r,
                ret, inflight, log, faults, call>>

\* let mut r = String::new(); let mut images = vec![];
\* r.push_str(&format.title1(...));
PresentStart ==
  /\ pres.pc = "start"
  /\ pres' = [pres EXCEPT
       !.pc = "loop",
       !.r = title1(pres.format, <<"The ", pres.title, " results are here!">>)]
  /\ UNCHANGED <<driverVars, chart, config>>

\* Mutant of PresentEntry: a render error ends the loop.
PresentEntryStopsOnError ==
  /\ pres.pc = "loop"
  /\ pres.idx < Len(pres.data)
  /\ \E outcome \in Outcomes, cid \in FreshCids(pres.images) :
       LET e == pres.data[pres.idx + 1]
           rendered == Render(e.comp, e.query, e.result.val, pres.format,
                              outcome # "svg", outcome # "png", cid)
           rquery == present_query_as(e.query, e.result, pres.format, rendered)
       IN
       IF ~rquery.ok
       THEN pres' = [pres EXCEPT !.pc = "done", !.ret.ok = FALSE]
       ELSE pres' = [pres EXCEPT
              !.idx = IF Renders(e.result) /\ ~rendered.ok
                     THEN Len(pres.data) ELSE pres.idx + 1,
              !.r = pres.r \o break_line(pres.format) \o rquery.val.content
                    \o break_line(pres.format) \o break_line(pres.format),
              !.images = pres.images \o rquery.val.images,
              !.sections = Append(pres.sections, rquery.val),
              !.renders = Append(pres.renders,
                                 [called |-> Renders(e.result),
                                  rows |-> e.result.val,
                                  res |-> IF Renders(e.result) THEN rendered
                                          ELSE Fail(<<>>, NoContent)])]
  /\ UNCHANGED <<driverVars, chart, config>>

\* Mutant of PresentEntry: the images of a section are put in front.
PresentEntryPrependsImages ==
  /\ pres.pc = "loop"
  /\ pres.idx < Len(pres.data)
  /\ \E outcome \in Outcomes, cid \in FreshCids(pres.images) :
       LET e == pres.data[pres.idx + 1]
           rendered == Render(e.comp, e.query, e.result.val, pres.format,
                              outcome # "svg", outcome # "png", cid)
           rquery == present_query_as(e.query, e.result, pres.format, rendered)
       IN
       IF ~rquery.ok
       THEN pres' = [pres EXCEPT !.pc = "done", !.ret.ok = FALSE]
       ELSE pres' = [pres EXCEPT
              !.idx = pres.idx + 1,
              !.r = pres.r \o break_line(pres.format) \o rquery.val.content
                    \o break_line(pres.format) \o break_line(pres.format),
              !.images = rquery.val.images \o pres.images,
              !.sections = Append(pres.sections, rquery.val),
              !.renders = Append(pres.renders,
                                 [called |-> Renders(e.result),
                                  rows |-> e.result.val,
                                  res |-> IF Renders(e.result) THEN rendered
                                          ELSE Fail(<<>>, NoContent)])]
  /\ UNCHANGED <<driverVars, chart, config>>

\* for (query, comp, result) in data { ... } : one turn of the loop.
PresentEntry ==
  /\ pres.pc = "loop"
  /\ pres.idx < Len(pres.data)
  /\ \E outcome \in Outcomes, cid \in FreshCids(pres.images) :
       LET e == pres.data[pres.idx + 1]
           rendered == Render(e.comp, e.query, e.result.val, pres.format,
                              outcome # "svg", outcome # "png", cid)
           rquery == present_query_as(e.query, e.result, pres.format, rendered)
       IN
       IF ~rquery.ok
       THEN pres' = [pres EXCEPT !.pc = "done", !.ret.ok = FALSE]
       ELSE pres' = [pres EXCEPT
              !.idx = pres.idx + 1,
              !.r = pres.r \o break_line(pres.format) \o rquery.val.content
                    \o break_line(pres.format) \o break_line(pres.format),
              !.images = pres.images \o rquery.val.images,
              !.sections = Append(pres.sections, rquery.val),
              !.renders = Append(pres.renders,
                                 [called |-> Renders(e.result),
                                  rows |-> e.result.val,
                                  res |-> IF Renders(e.result) THEN rendered
                                          ELSE Fail(<<>>, NoContent)])]
  /\ UNCHANGED <<driverVars, chart, config>>

\* Mutant of PresentReturn: the footer line is not written.
PresentReturnNoFooter ==
  /\ pres.pc = "loop"
  /\ pres.idx = Len(pres.data)
  /\ pres' = [pres EXCEPT
       !.pc = "done",
       !.ret = DataPresented(pres.format = "Html",
                             body(pres.format, pres.r), pres.images)]
  /\ UNCHANGED <<driverVars, chart, config>>

\* r.push_str(&format.simple(...)); let r = format.body(&r);
\* Ok(DataPresented { ... })
PresentReturn ==
  /\ pres.pc = "loop"
  /\ pres.idx = Len(pres.data)
  /\ pres' = [pres EXCEPT
       !.pc = "done",
       !.ret = DataPresented(pres.format = "Html",
                 body(pres.format, pres.r \o simple(pres.format, <<Footer>>)),
                 pres.images)]
  /\ UNCHANGED <<driverVars, chart, config>>

NextPresent == PresentStart \/ PresentEntry \/ PresentReturn

SpecPresent == InitPresent /\ [][NextPresent]_vars

\* ------------------------------------------- a ChartComponent, called directly
\* One call of prepare_keys, prepare_series or render on a component and its
\* data, as the tests of charts.rs make them.
\* The configurations: every kind, keys_by unset, set, or naming no field,
\* and series unset, explicit, grouped, or both.
KeysBySet == {NoKeysBy, Some("name"), Some("nokey")}

SeriesSet ==
  {[series |-> NoSeries, series_by |-> NoSeriesBy],
   [series |-> Some(<<"age">>), series_by |-> NoSeriesBy],
   [series |-> Some(<<"score", "age">>), series_by |-> NoSeriesBy],
   [series |-> Some(<<"age", "nofield">>), series_by |-> NoSeriesBy],
   [series |-> NoSeries, series_by |-> Some(ChartSeriesBy("team", "age"))],
   [series |-> NoSeries, series_by |-> Some(ChartSeriesBy("name", "age"))],
   [series |-> NoSeries, series_by |-> Some(ChartSeriesBy("noserie", "age"))],
   [series |-> NoSeries, series_by |-> Some(ChartSeriesBy("team", "novalue"))],
   [series |-> Some(<<"age">>),
    series_by |-> Some(ChartSeriesBy("team", "age"))]}

ChartSet ==
  {ChartComponent(k, kb, s.series_by, s.series) :
     k \in ChartType, kb \in KeysBySet, s \in SeriesSet}

\* The keys a caller gives to prepare_series: those of prepare_keys, as
\* render does, or a list of its own, as the tests do.
KeysArgs(self, data) ==
  {<<"jane.abc">>} \cup
  (IF prepare_keys(self, data).ok THEN {prepare_keys(self, data).val} ELSE {})

InitChart ==
  /\ kind = "Sqlite"
  /\ feature = TRUE
  /\ reachable = TRUE
  /\ table = <<>>
  /\ querys = <<>>
  /\ driver = NoDriver
  /\ pc = "idle"
  /\ i = 0
  /\ r = <<>>
  /\ ret = NoRet
  /\ inflight = 0
  /\ log = <<>>
  /\ faults = <<>>
  /\ call = NoCall
  /\ config = NoConfig
  /\ pres = NoPres
  /\ \E self \in ChartSet, data \in SeqsUpTo(UserRows, MaxChartRows) :
       chart = [NoChart EXCEPT !.pc = "chart", !.self = self, !.data = data]

\* chart.prepare_keys(&query, &data)
CallPrepareKeys ==
  /\ chart.pc = "chart"
  /\ chart' = [chart EXCEPT
       !.pc = "called",
       !.call = [NoChartCall EXCEPT
                   !.op = "prepare_keys",
                   !.res = prepare_keys(chart.self, chart.data)]]
  /\ UNCHANGED <<driverVars, pres, config>>

\* chart.prepare_series(&query, &keys, &data)
CallPrepareSeries ==
  /\ chart.pc = "chart"
  /\ \E keys \in KeysArgs(chart.self, chart.data) :
       chart' = [chart EXCEPT
         !.pc = "called",
         !.call = [NoChartCall EXCEPT
                     !.op = "prepare_series",
                     !.keys = keys,
                     !.res = prepare_series(chart.self, chart.query, keys,
                                            chart.data)]]
  /\ UNCHANGED <<driverVars, pres, config>>

\* chart.render(query, data, format)
CallRender ==
  /\ chart.pc = "chart"
  /\ \E format \in OutputFormat, outcome \in Outcomes :
       chart' = [chart EXCEPT
         !.pc = "called",
         !.call = [NoChartCall EXCEPT
                     !.op = "render",
                     !.format = format,
                     !.rendered = ChartRender(chart.self, chart.query,
                                    chart.data, format, outcome # "svg",
                                    outcome # "png", CidName(1))]]
  /\ UNCHANGED <<driverVars, pres, config>>

NextChart == CallPrepareKeys \/ CallPrepareSeries \/ CallRender

SpecChart == InitChart /\ [][NextChart]_vars

\* ------------------------------------------- the TableComponent, called directly
\* One call of render on a query and rows, as the tests of table.rs make it.
InitTable ==
  /\ kind = "Sqlite"
  /\ feature = TRUE
  /\ reachable = TRUE
  /\ table = <<>>
  /\ querys = <<>>
  /\ driver = NoDriver
  /\ pc = "idle"
  /\ i = 0
  /\ r = <<>>
  /\ ret = NoRet
  /\ inflight = 0
  /\ log = <<>>
  /\ faults = <<>>
  /\ call = NoCall
  /\ config = NoConfig
  /\ pres = NoPres
  /\ \E query \in {UsersQuery, PeopleQuery},
        data \in SeqsUpTo(UserRows, MaxChartRows) :
       chart = [NoChart EXCEPT !.pc = "table", !.query = query, !.data = data]

\* TableComponent {}.render(query, rows, format)
CallTableRender ==
  /\ chart.pc = "table"
  /\ \E format \in OutputFormat :
       chart' = [chart EXCEPT
         !.pc = "called",
         !.call = [NoChartCall EXCEPT
                     !.op = "table",
                     !.format = format,
                     !.rendered = Render(TableComponent, chart.query,
                                         chart.data, format, TRUE, TRUE,
                                         CidName(1))]]
  /\ UNCHANGED <<driverVars, pres, config>>

NextTable == CallTableRender

SpecTable == InitTable /\ [][NextTable]_vars

\* ------------------------------------------------------ config.rs / main.rs
\* Option<ChartComponent> of a configured query.
NoChartSpec ==
  [some |-> FALSE, v |-> ChartComponent("Bar", NoKeysBy, NoSeriesBy, NoSeries)]

ConfigQuery(title, sql, fields, chart_) ==
  [title |-> title, sql |-> sql, fields |-> fields, chart |-> chart_]

to_query(self) == Query(self.sql, self.title, self.fields)

to_querys(cquerys) ==
  [k \in 1..Len(cquerys) |->
     [query |-> to_query(cquerys[k]), chart |-> cquerys[k].chart]]

\* querys.iter().find(|(q2, _)| q2 == &q).map(|(_, c)| c.clone()).flatten():
\* the chart of the first configured query equal to q; the table without one.
find_component(pairs, q) ==
  LET found == {k \in 1..Len(pairs) : pairs[k].query = q}
      chart_ == IF found = {} THEN NoChartSpec
                ELSE pairs[CHOOSE k \in found : \A j \in found : k <= j].chart
  IN IF chart_.some THEN Chart(chart_.v) ELSE TableComponent

PizzaByAge == ChartComponent("Pizza", NoKeysBy, NoSeriesBy, Some(<<"age">>))

\* The configured queries: with and without a chart, the same query under
\* several chart specs.
ConfigQuerys ==
  {ConfigQuery(q.title, q.sql, q.fields, c) :
     q \in {UsersQuery}, c \in {NoChartSpec, Some(BarByName), Some(PizzaByAge)}}
  \cup {ConfigQuery(SalesQuery.title, SalesQuery.sql, SalesQuery.fields,
                    Some(BarByName)),
        ConfigQuery(PeopleQuery.title, PeopleQuery.sql, PeopleQuery.fields,
                    NoChartSpec)}

\* What source::fetch records for one query.
QueryResults == {Fetched(TwoUsers), FetchFailed("Table 'users' not found")}

InitMain ==
  /\ kind = "Sqlite"
  /\ feature = TRUE
  /\ reachable = TRUE
  /\ table = <<>>
  /\ querys = <<>>
  /\ driver = NoDriver
  /\ pc = "idle"
  /\ i = 0
  /\ r = <<>>
  /\ ret = NoRet
  /\ inflight = 0
  /\ log = <<>>
  /\ faults = <<>>
  /\ call = NoCall
  /\ pres = NoPres
  /\ chart = NoChart
  /\ \E cquerys \in SeqsUpTo(ConfigQuerys, MaxData) :
       config = [NoConfig EXCEPT !.pc = "start", !.querys = cquerys]

\* let querys = config::to_querys(config.querys);
MainToQuerys ==
  /\ config.pc = "start"
  /\ config' = [config EXCEPT !.pc = "fetch",
                              !.pairs = to_querys(config.querys)]
  /\ UNCHANGED <<driverVars, pres, chart>>

\* let data = source::fetch(config.source, lquerys).await?; the executor
\* returns Err, or one (query, result) per query in order.
MainFetch ==
  /\ config.pc = "fetch"
  /\ \/ config' = [config EXCEPT !.pc = "failed"]
     \/ \E results \in [1..Len(config.pairs) -> QueryResults] :
          config' = [config EXCEPT
            !.pc = "pair",
            !.data = [k \in 1..Len(config.pairs) |->
                        [query |-> config.pairs[k].query,
                         result |-> results[k]]]]
  /\ UNCHANGED <<driverVars, pres, chart>>

\* for (q, r) in data { ndata.push((q, find_component(querys, q), r)) }
MainPair ==
  /\ config.pc = "pair"
  /\ Len(config.ndata) < Len(config.data)
  /\ LET e == config.data[Len(config.ndata) + 1] IN
       config' = [config EXCEPT
         !.ndata = Append(config.ndata,
                          Entry(e.query, find_component(config.pairs, e.query),
                                e.result))]
  /\ UNCHANGED <<driverVars, pres, chart>>

\* presentation::present_as(ndata, ...)
MainPresent ==
  /\ config.pc = "pair"
  /\ Len(config.ndata) = Len(config.data)
  /\ config' = [config EXCEPT !.pc = "present"]
  /\ UNCHANGED <<driverVars, pres, chart>>

NextMain == MainToQuerys \/ MainFetch \/ MainPair \/ MainPresent

SpecMain == InitMain /\ [][NextMain]_vars

\* ================================================================ claims
\* The events of the log with the given op.
Calls(op) == SelectSeq(log, LAMBDA e : e.op = op)

\* C1: source::fetch with a supported kind and a successful connect returns
\* one entry per input query, in input order, entry k carrying a Query equal
\* to input query k, whatever mix of successes and failures occurred; while
\* the loop runs, r is the same for the queries taken so far.
C1_OnePerQueryInOrder ==
  /\ Len(r) <= Len(querys)
  /\ \A k \in 1..Len(r) : r[k].query = querys[k]
  /\ (pc = "returned" /\ ret.ok) =>
       /\ Len(ret.val) = Len(querys)
       /\ \A k \in 1..Len(querys) : ret.val[k].query = querys[k]

C1_Witness ==
  /\ pc = "returned"
  /\ ret.ok
  /\ Len(ret.val) = 2
  /\ querys[1] # querys[2]
  /\ ret.val[1].result.ok
  /\ ~ret.val[2].result.ok

\* C2: a failure of driver.fetch for query k is stored in slot k, and every
\* slot holds what the connected driver returns for its own query and the
\* backend fault met by that fetch alone: no slot depends on a sibling's
\* outcome, and every query after a failed one is still fetched.
C2_FailureStaysInItsSlot ==
  /\ \A k \in 1..Len(r) :
       r[k].result =
         DriverFetch([kind |-> kind, conn |-> TRUE], querys[k], table,
                     faults[k].fault, faults[k].at)
  /\ (pc = "returned" /\ ret.ok) =>
       /\ Len(Calls("fetch")) = Len(querys)
       /\ ret.val = r

C2_Witness ==
  /\ pc = "returned"
  /\ ret.ok
  /\ Len(ret.val) = 2
  /\ ~ret.val[1].result.ok
  /\ ret.val[2].result.ok
  /\ Len(ret.val[2].result.val) > 0

\* C3: when driver.connect fails, source::fetch returns that Err, no
\* driver.fetch call is made and connect is not attempted again.
C3_ConnectFailureIsFatal ==
  (Len(Calls("connect")) > 0 /\ ~reachable) =>
    /\ pc = "returned"
    /\ ret = ConnectResult(kind, FALSE)
    /\ ~ret.ok
    /\ Len(Calls("connect")) = 1
    /\ Len(Calls("fetch")) = 0
    /\ r = <<>>

C3_Witness ==
  /\ pc = "returned"
  /\ ~reachable
  /\ Len(Calls("connect")) = 1
  /\ Len(querys) > 0

\* C4: when the source kind has no driver (Postgres without the "postgres"
\* feature), source::fetch fails with exactly "Not supported kind" and no
\* connect and no fetch call is made on any driver.
C4_UnsupportedKindFailsFast ==
  (kind = "Postgres" /\ ~feature /\ pc # "start") =>
    /\ pc = "returned"
    /\ ret = Err("Not supported kind", "")
    /\ log = <<>>
    /\ driver = NoDriver

C4_Witness ==
  /\ kind = "Postgres"
  /\ ~feature
  /\ pc = "returned"
  /\ reachable
  /\ Len(querys) > 0

\* C5: a fetch on a Sqlite or Postgres driver on which no connect has
\* succeeded (never connected, or only refused connects) returns the error
\* "Connection not established" and sends nothing to the backend; a driver
\* holds a connection only after a connect succeeded.
C5_FetchBeforeConnect ==
  /\ driver.conn => \E p \in 1..Len(log) : log[p].op = "connected"
  /\ (call.op = "fetch" /\ ~(\E p \in 1..Len(log) : log[p].op = "connected")) =>
       /\ call.res = Err("Connection not established", "")
       /\ call.sent = <<>>

C5_Witness ==
  /\ call.op = "fetch"
  /\ kind = "Postgres"
  /\ log = <<Event("refused", 0)>>
  /\ call.query = QAll
  /\ Len(table) > 0

\* The k-th driver call of a run of source::fetch: connect, then for each
\* query its fetch call followed by that call's return.
ExpectedCall(p) ==
  IF p = 1 THEN Event("connect", 0)
  ELSE IF p % 2 = 0 THEN Event("fetch", p \div 2)
  ELSE Event("fetched", p \div 2)

\* C6: in one run of source::fetch the driver is connected exactly once and
\* before the first fetch; the fetch of query N+1 starts only after the fetch
\* of query N has returned, so at most one fetch is in flight and fetches
\* start in configured order.
C6_SequentialFetches ==
  /\ inflight \in {0, 1}
  /\ \A p \in 1..Len(log) : log[p] = ExpectedCall(p)
  /\ inflight = Len(Calls("fetch")) - Len(Calls("fetched"))
  /\ (pc = "returned" /\ ret.ok) => Len(Calls("connect")) = 1

C6_Witness ==
  /\ pc = "await"
  /\ Len(r) = 1
  /\ inflight = 1
  /\ log[1] = Event("connect", 0)

\* A fetch call that reached the backend and prepared its statement with no
\* backend fault.
FetchRan ==
  /\ call.op = "fetch"
  /\ call.before
  /\ call.fault = "none"
  /\ Prepares(call.query.sql)

\* The fields of the fetched query that name no column of the statement.
MissingFields ==
  {k \in 1..Len(call.query.fields) :
     ColumnIndex(call.query.fields[k].field) = 0}

\* C7: for every driver and query, a Field naming a column the prepared
\* statement does not have makes driver.fetch return "Column <name> not
\* found" for that column, whatever the number of result rows.
C7_MissingColumnFails ==
  (FetchRan /\ MissingFields # {}) =>
    /\ ~call.res.ok
    /\ call.res.err.text = "Column {} not found"
    /\ \E k \in MissingFields :
         call.res.err.column = call.query.fields[k].field

\* C8: when decoding the cell of field f in the result row with zero-based
\* index i fails, the error message of driver.fetch names f and carries the
\* row index i (not the position of the column inside the row).
C8_DecodeErrorNamesFieldAndRow ==
  (call.op = "fetch" /\ ~call.res.ok /\ call.res.err.cell) =>
    /\ call.res.err.text \in {"Read column {} row {} failed: {}",
                              "Column {} row {} error: {}"}
    /\ call.res.err.column = call.query.fields[call.res.err.colIdx + 1].field
    /\ call.res.err.row = call.res.err.rowIdx

\* The table cell read for the field at position ci of the fetched query in
\* row ri of the table (the field names a column).
CellOf(ri, ci) == table[ri][ColumnIndex(call.query.fields[ci].field)]

\* Rows of a successful fetch: a NULL cell is a Value with inner = None.
NullCellsAreNone ==
  (call.op = "fetch" /\ call.res.ok) =>
    \A ri \in 1..Len(call.res.val) :
      \A ci \in 1..Len(call.res.val[ri]) :
        (ColumnIndex(call.query.fields[ci].field) # 0 /\ CellOf(ri, ci).null)
          => call.res.val[ri][ci].inner = None

\* The fetch failed while reading a cell that holds NULL.
FailedAtNull ==
  /\ call.op = "fetch"
  /\ ~call.res.ok
  /\ call.res.err.cell
  /\ ColumnIndex(call.query.fields[call.res.err.colIdx + 1].field) # 0
  /\ CellOf(call.res.err.rowIdx + 1, call.res.err.colIdx + 1).null

\* The Postgres column types PostgresDriver::fetch decodes for a FieldType.
KindAccepts(k) ==
  CASE k = "Integer" -> {"INT2", "INT4", "INT8"}
    [] k = "String" -> {"VARCHAR", "TEXT", "BPCHAR", "NAME", "UNKNOWN"}
    [] k = "Float" -> {"FLOAT4", "FLOAT8", "NUMERIC"}
    [] k = "Date" -> {"DATE"}
    [] k = "Time" -> {"TIME"}
    [] k = "DateTime" -> {"TIMESTAMPTZ", "TIMESTAMP"}

C10_RowsFollowFields ==
  (call.op = "fetch" /\ call.res.ok) =>
    \A ri \in 1..Len(call.res.val) :
      /\ Len(call.res.val[ri]) = Len(call.query.fields)
      /\ \A ci \in 1..Len(call.query.fields) :
           /\ call.res.val[ri][ci].field = call.query.fields[ci]
           /\ call.res.val[ri][ci].inner # None =>
                call.res.val[ri][ci].inner.tag = call.query.fields[ci].kind

C10_Witness ==
  /\ call.op = "fetch"
  /\ kind = "Sqlite"
  /\ call.query = QAll
  /\ call.res.ok
  /\ Len(call.res.val) = 2
  /\ \A ci \in 1..Len(FAll) : call.res.val[2][ci].inner # None

\* What C11 compares of a fetch outcome: error or not and, per cell of every
\* row, the TypedValue variant ("None" for an absent value).
Outcome(res) ==
  IF res.ok
  THEN [ok |-> TRUE,
        rows |-> [ri \in 1..Len(res.val) |->
                    [ci \in 1..Len(res.val[ri]) |-> res.val[ri][ci].inner.tag]]]
  ELSE [ok |-> FALSE, rows |-> <<>>]

\* The same fetch on a connected driver of the other kind.
OtherDriverFetch ==
  IF kind = "Sqlite"
  THEN PostgresFetch(TRUE, call.query, table, call.fault, call.at)
  ELSE SqliteFetch(TRUE, call.query, table, call.fault, call.at)

\* C11: driver parity: for the same query and the same table contents the
\* Sqlite and the Postgres driver return the same outcome: both the same rows
\* (same length, same variant and null status per cell) or both an error.
C11_DriverParity ==
  (call.op = "fetch" /\ call.before /\ call.fault = "none") =>
    Outcome(call.res) = Outcome(OtherDriverFetch)

\* ------------------------------------------------------------ present_as
IsPrefix(p, s) == Len(p) <= Len(s) /\ SubSeq(s, 1, Len(p)) = p

\* The heading that opens the section of entry k.
SectionHead(k) ==
  title2(pres.format, <<"Query: ", pres.data[k].query.title>>)

\* What follows the heading in the section of entry k.
SectionRest(k) ==
  SubSeq(pres.sections[k].content, Len(SectionHead(k)) + 1,
         Len(pres.sections[k].content))

\* One line of text: pieces without a line end, then the line end.
SingleLine(text) ==
  /\ Len(text) >= 2
  /\ text[Len(text)] = "\n"
  /\ \A p \in 1..(Len(text) - 1) : text[p] # "\n"

\* The heading of the report followed by the sections written so far, each
\* between break lines.
WrittenSoFar ==
  title1(pres.format, <<"The ", pres.title, " results are here!">>) \o
  Flatten([k \in 1..Len(pres.sections) |->
             break_line(pres.format) \o pres.sections[k].content \o
             break_line(pres.format) \o break_line(pres.format)])

\* C12: the content built by present_as is the level-1 heading "The <title>
\* results are here!", then exactly one section per entry of the input in
\* input order, each opening with the heading "Query: <query.title>" and
\* holding either the rendered content or a single diagnostic line, then the
\* fixed footer line, exactly once, at the end.
C12_HeadingSectionsFooter ==
  /\ pres.pc = "loop" => pres.r = WrittenSoFar /\ Len(pres.sections) = pres.idx
  /\ pres.pc = "done" =>
       /\ pres.ret.ok
       /\ Len(pres.sections) = Len(pres.data)
       /\ pres.ret.content =
            body(pres.format, WrittenSoFar \o simple(pres.format, <<Footer>>))
       /\ Cardinality({p \in 1..Len(pres.ret.content) :
                         pres.ret.content[p] = Footer}) = 1
       /\ \A k \in 1..Len(pres.data) :
            /\ IsPrefix(SectionHead(k), pres.sections[k].content)
            /\ IF pres.renders[k].called /\ pres.renders[k].res.ok
               THEN SectionRest(k) =
                      simple(pres.format, pres.renders[k].res.val.content)
               ELSE SingleLine(SectionRest(k))

\* A report of two entries is returned: one section rendered, one a
\* diagnostic line.
C12_Witness ==
  /\ pres.pc = "done"
  /\ Len(pres.data) = 2
  /\ pres.renders[1].called /\ pres.renders[1].res.ok
  /\ ~pres.renders[2].called

\* C13: for an entry whose fetch result is the error e, the section holds
\* the line "Query failed: <e>" after the heading, the component's render is
\* not called for it, and it adds no images.
C13_FailedQueryLine ==
  \A k \in 1..Len(pres.sections) :
    ~pres.data[k].result.ok =>
      /\ pres.sections[k].content =
           SectionHead(k) \o
           simple(pres.format, <<"Query failed: ", pres.data[k].result.err>>)
      /\ ~pres.renders[k].called
      /\ pres.sections[k].images = <<>>

\* C14: for an entry whose fetch result is Ok with zero rows, the section
\* holds exactly "Empty result" after the heading, for every component kind
\* and output format; render is never called with an empty row list.
C14_EmptyResultLine ==
  \A k \in 1..Len(pres.sections) :
    /\ (pres.data[k].result.ok /\ pres.data[k].result.val = <<>>) =>
         /\ pres.sections[k].content =
              SectionHead(k) \o simple(pres.format, <<"Empty result">>)
         /\ ~pres.renders[k].called
    /\ pres.renders[k].called => Len(pres.renders[k].rows) > 0

\* Sections of a chart and of a table with zero rows were written in Html.
C14_Witness ==
  /\ pres.format = "Html"
  /\ \E k \in 1..Len(pres.sections) :
       /\ pres.data[k].comp.type = "Chart"
       /\ pres.data[k].result.ok /\ pres.data[k].result.val = <<>>
  /\ \E k \in 1..Len(pres.sections) :
       /\ pres.data[k].comp.type = "Table"
       /\ pres.data[k].result.ok /\ pres.data[k].result.val = <<>>

\* The section present_query_as writes for entry k, given what render
\* returned for that entry alone.
OwnSection(k) ==
  present_query_as(pres.data[k].query, pres.data[k].result, pres.format,
                   pres.renders[k].res).val

\* C15: for an entry with rows whose render returns the error e, the section
\* holds the line "Error on rendering: <e>" in place of the rendered content
\* and adds no images; the other sections are what they are without it: each
\* is written from its own entry, none is dropped, the report is returned.
C15_RenderErrorLine ==
  /\ \A k \in 1..Len(pres.sections) :
       /\ (pres.renders[k].called /\ ~pres.renders[k].res.ok) =>
            /\ pres.sections[k].content =
                 SectionHead(k) \o
                 simple(pres.format,
                        <<"Error on rendering: ">> \o pres.renders[k].res.err)
            /\ pres.sections[k].images = <<>>
       /\ pres.sections[k] = OwnSection(k)
  /\ pres.pc = "loop" => Len(pres.sections) = pres.idx
  /\ pres.pc = "done" => pres.ret.ok /\ Len(pres.sections) = Len(pres.data)

\* A report is returned whose first entry failed to render and whose second
\* entry rendered.
C15_Witness ==
  /\ pres.pc = "done"
  /\ Len(pres.data) = 2
  /\ pres.renders[1].called /\ ~pres.renders[1].res.ok
  /\ pres.renders[2].called /\ pres.renders[2].res.ok

\* C16: present_as returns Ok for every input: no failed fetch, empty result
\* or render error makes present_query_as or present_as return Err.
C16_AlwaysOk ==
  pres.pc = "done" =>
    /\ pres.ret.ok
    /\ pres.idx = Len(pres.data)
    /\ pres.ret.is_html = (pres.format = "Html")

\* A report is returned with a failed fetch and a failed render in it.
C16_Witness ==
  /\ pres.pc = "done"
  /\ \E k \in 1..Len(pres.data) : ~pres.data[k].result.ok
  /\ \E k \in 1..Len(pres.data) :
       pres.renders[k].called /\ ~pres.renders[k].res.ok

\* The entries written so far whose render succeeded with images.
WithImages ==
  {k \in 1..Len(pres.renders) :
     /\ pres.renders[k].called
     /\ pres.renders[k].res.ok
     /\ pres.renders[k].res.val.images # <<>>}

\* C17: the images of DataPresented are the concatenation, in entry order,
\* of the image lists of the renders that succeeded; failed, empty and
\* failed-to-render entries and Table entries add nothing, so there is one
\* image per successfully rendered chart section.
C17_ImagesInEntryOrder ==
  /\ pres.images =
       Flatten([k \in 1..Len(pres.renders) |->
                  IF pres.renders[k].called /\ pres.renders[k].res.ok
                  THEN pres.renders[k].res.val.images ELSE <<>>])
  /\ \A k \in WithImages : pres.data[k].comp.type = "Chart"
  /\ Len(pres.images) =
       Cardinality({k \in 1..Len(pres.renders) :
                      /\ pres.data[k].comp.type = "Chart"
                      /\ pres.renders[k].called
                      /\ pres.renders[k].res.ok})
  /\ pres.pc = "done" => pres.ret.images = pres.images

\* A report with two rendered charts is returned.
C17_Witness ==
  /\ pres.pc = "done"
  /\ Len(pres.ret.images) = 2
  /\ pres.ret.images[1].cid # pres.ret.images[2].cid

\* -------------------------------------------------------- ChartComponent
\* C18: ChartComponent.render with the Plain or the Markdown format fails
\* with exactly "Output format without chart support", for every kind,
\* configuration and data: the format is checked before any key or series is
\* derived, so no set-up error is reported instead.
C18_NonHtmlHasNoChart ==
  (chart.call.op = "render" /\ chart.call.format # "Html") =>
    chart.call.rendered =
      Fail(<<"Output format without chart support">>, NoContent)

\* render was called with Markdown on a component whose keys cannot be
\* derived.
C18_Witness ==
  /\ chart.call.op = "render"
  /\ chart.call.format = "Markdown"
  /\ ~prepare_keys(chart.self, chart.data).ok
  /\ chart.data # <<>>

\* The text of the value of field `by` in row n of the data, "" when absent.
KeyOf(by, n) ==
  LET row == chart.data[n] IN
  IF row[FindValue(by, row)].inner.tag = "None" THEN ""
  ELSE to_string(row[FindValue(by, row)].inner)

\* The first row whose field `by` holds `key`.
FirstRow(by, key) ==
  CHOOSE n \in 1..Len(chart.data) :
    /\ KeyOf(by, n) = key
    /\ \A m \in 1..(n - 1) : KeyOf(by, m) # key

\* `keys` lists the values of field `by` without duplicates, every row's
\* value among them, ordered by the first row that holds each.
FirstOccurrenceOrder(keys, by) ==
  /\ \A a, b \in 1..Len(keys) : a # b => keys[a] # keys[b]
  /\ \A n \in 1..Len(chart.data) : Contains(keys, KeyOf(by, n))
  /\ \A a \in 1..Len(keys) :
       \E n \in 1..Len(chart.data) : KeyOf(by, n) = keys[a]
  /\ \A a, b \in 1..Len(keys) :
       a < b <=> FirstRow(by, keys[a]) < FirstRow(by, keys[b])

\* The rows of serie `serie` whose key is `key`.
RowsOf(serie, key) ==
  {n \in 1..Len(chart.data) :
     /\ KeyOf(chart.self.series_by.v.key, n) = serie
     /\ KeyOf(chart.self.keys_by.v, n) = key}

\* C19: in grouped series mode prepare_series returns one series per
\* distinct value of the series_by.key field, in first-occurrence order and
\* named by that value; the value of series s at position i of keys is the
\* series_by.values of a row of serie s with key keys[i] when there is such a
\* row and 0.0 otherwise; rows whose key is not in keys change nothing.
C19_GroupedSeries ==
  (/\ chart.call.op = "prepare_series"
   /\ chart.self.series_by.some /\ ~chart.self.series.some
   /\ chart.call.res.ok) =>
    LET series == chart.call.res.val
        keys == chart.call.keys
    IN /\ FirstOccurrenceOrder([s \in 1..Len(series) |-> series[s].name],
                               chart.self.series_by.v.key)
       /\ \A s \in 1..Len(series) :
            /\ Len(series[s].data) = Len(keys)
            /\ \A p \in 1..Len(keys) :
                 IF RowsOf(series[s].name, keys[p]) # {}
                 THEN \E n \in RowsOf(series[s].name, keys[p]) :
                        series[s].data[p] =
                          get_value_by(chart.self.series_by.v.values,
                                       chart.data[n]).val
                 ELSE series[s].data[p] = 0

\* Grouped series were derived from rows of two series, with a position left
\* at 0.0 and a row whose key is not among the keys.
C19_Witness ==
  /\ chart.call.op = "prepare_series"
  /\ chart.self.series_by.some /\ ~chart.self.series.some
  /\ chart.call.res.ok
  /\ Len(chart.call.res.val) = 2
  /\ \E s \in 1..2, p \in 1..Len(chart.call.keys) :
       /\ chart.call.res.val[s].data[p] = 0
       /\ RowsOf(chart.call.res.val[s].name, chart.call.keys[p]) = {}
  /\ \E s \in 1..2, p \in 1..Len(chart.call.keys) :
       chart.call.res.val[s].data[p] # 0
  /\ \E n \in 1..Len(chart.data) :
       ~Contains(chart.call.keys, KeyOf(chart.self.keys_by.v, n))

\* C20: prepare_keys returns the distinct values of the keys_by field in
\* first-occurrence order: no duplicates, every row's key among them, and a
\* before b exactly when the first row holding a is before the first row
\* holding b.
C20_KeysFirstOccurrence ==
  (/\ chart.call.op = "prepare_keys"
   /\ chart.self.keys_by.some
   /\ chart.call.res.ok) =>
    FirstOccurrenceOrder(chart.call.res.val, chart.self.keys_by.v)

\* Keys were derived from three rows, two of them with the same key.
C20_Witness ==
  /\ chart.call.op = "prepare_keys"
  /\ chart.self.keys_by.some
  /\ chart.call.res.ok
  /\ Len(chart.data) = 3
  /\ Len(chart.call.res.val) = 2
  /\ KeyOf(chart.self.keys_by.v, 1) = KeyOf(chart.self.keys_by.v, 3)

\* The value of field `by` in row n of the data as f32: 0.0 when absent.
ValueOf(by, n) ==
  LET row == chart.data[n] IN
  IF row[FindValue(by, row)].inner.tag = "None" THEN 0
  ELSE to_float(row[FindValue(by, row)].inner).val

\* C21: in explicit series mode prepare_series returns one series per name
\* in `series`, in configured order, named by the display title of the
\* field of that name, with one value per row in row order: row j's value of
\* the field as a float, 0.0 when the value is absent.
C21_ExplicitSeries ==
  (/\ chart.call.op = "prepare_series"
   /\ chart.self.series.some /\ ~chart.self.series_by.some
   /\ chart.call.res.ok) =>
    LET series == chart.call.res.val
        names == chart.self.series.v
    IN /\ Len(series) = Len(names)
       /\ \A s \in 1..Len(names) :
            /\ \E f \in 1..Len(chart.query.fields) :
                 /\ chart.query.fields[f].field = names[s]
                 /\ chart.query.fields[f].title = series[s].name
            /\ Len(series[s].data) = Len(chart.data)
            /\ \A j \in 1..Len(chart.data) :
                 series[s].data[j] = ValueOf(names[s], j)

\* Two explicit series were derived from rows with a value and with an
\* absent value of the first field.
C21_Witness ==
  /\ chart.call.op = "prepare_series"
  /\ chart.self.series.some /\ ~chart.self.series_by.some
  /\ chart.call.res.ok
  /\ Len(chart.call.res.val) = 2
  /\ Len(chart.data) = 3
  /\ chart.call.res.val[1].data[1] # 0
  /\ chart.data[2][FindValue(chart.self.series.v[1], chart.data[2])].inner = None
  /\ chart.call.res.val[1].data # chart.call.res.val[2].data

\* C22: with keys_by unset, a Bar or Line chart fails with "Keys must be
\* defined" (prepare_keys, and so render on Html); a Pizza chart in explicit
\* series mode does not fail for lack of keys: prepare_keys returns an empty
\* list and render reports no missing keys. With neither series nor
\* series_by, prepare_series fails with "Series must be defined".
C22_KeysAndSeriesRequired ==
  /\ (chart.call.op = "prepare_keys" /\ ~chart.self.keys_by.some) =>
       IF chart.self.kind = "Pizza"
       THEN chart.call.res = Good(<<>>)
       ELSE chart.call.res = Fail(<<"Keys must be defined">>, <<>>)
  /\ (/\ chart.call.op = "render" /\ chart.call.format = "Html"
      /\ ~chart.self.keys_by.some) =>
       IF chart.self.kind = "Pizza"
       THEN (chart.self.series.some /\ ~chart.self.series_by.some) =>
              \/ chart.call.rendered.ok
              \/ chart.call.rendered.err # <<"Keys must be defined">>
       ELSE chart.call.rendered = Fail(<<"Keys must be defined">>, NoContent)
  /\ (/\ chart.call.op = "prepare_series"
      /\ ~chart.self.series.some /\ ~chart.self.series_by.some) =>
       chart.call.res = Fail(<<"Series must be defined">>, <<>>)
  /\ (/\ chart.call.op = "render" /\ chart.call.format = "Html"
      /\ ~chart.self.series.some /\ ~chart.self.series_by.some
      /\ prepare_keys(chart.self, chart.data).ok) =>
       chart.call.rendered = Fail(<<"Series must be defined">>, NoContent)

\* A Pizza chart without keys_by and with explicit series was rendered from
\* rows.
C22_Witness ==
  /\ chart.call.op = "render"
  /\ chart.self.kind = "Pizza"
  /\ ~chart.self.keys_by.some
  /\ chart.call.rendered.ok
  /\ chart.data # <<>>

\* The field names a chart is configured with.
ConfiguredNames(self) ==
  (IF self.keys_by.some THEN {self.keys_by.v} ELSE {}) \cup
  (IF self.series.some THEN {self.series.v[k] : k \in 1..Len(self.series.v)}
   ELSE {}) \cup
  (IF self.series_by.some THEN {self.series_by.v.key, self.series_by.v.values}
   ELSE {})

\* The configured names that are the `field` of no Field of the query.
UnknownNames(self, query) ==
  {n \in ConfiguredNames(self) : FindField(query, n) = 0}

\* No required configuration is missing: keys_by for Bar and Line and for
\* grouped series, and one of series and series_by.
ConfigComplete(self) ==
  /\ self.keys_by.some \/ self.kind = "Pizza"
  /\ self.series.some \/ self.series_by.some
  /\ self.series_by.some => self.keys_by.some

CellsOf(content, format) ==
  LET IsCell(p) ==
        IF format = "Html"
        THEN p > 1 /\ p < Len(content) /\ content[p - 1] = ">"
             /\ content[p + 1] = "</"
        ELSE p > 1 /\ p < Len(content) /\ content[p - 1] = "| "
             /\ content[p + 1] = " "
      at == {p \in 1..Len(content) : IsCell(p)}
      Nth(n) == CHOOSE p \in at : Cardinality({q \in at : q < p}) = n - 1
  IN [n \in 1..Cardinality(at) |-> content[Nth(n)]]

\* C24: TableComponent.render succeeds for every query, every row sequence
\* and each of Plain, Markdown and Html, and returns no image; header i is
\* query.fields[i].title and the cell of an absent value is empty text.
C24_TableAlwaysRenders ==
  chart.call.op = "table" =>
    LET cells == CellsOf(chart.call.rendered.val.content, chart.call.format)
        w == Len(chart.query.fields)
    IN /\ chart.call.rendered.ok
       /\ chart.call.rendered.val.images = <<>>
       /\ Len(cells) = w * (1 + Len(chart.data))
       /\ \A c \in 1..w : cells[c] = chart.query.fields[c].title
       /\ \A n \in 1..Len(chart.data), c \in 1..w :
            IF chart.data[n][c].inner = None
            THEN cells[n * w + c] = ""
            ELSE cells[n * w + c] = to_string(chart.data[n][c].inner)

\* A table was rendered in Markdown under the titles of the second query,
\* from three rows with an absent value in the last.
C24_Witness ==
  /\ chart.call.op = "table"
  /\ chart.call.format = "Markdown"
  /\ chart.query = PeopleQuery
  /\ Len(chart.data) = 3
  /\ chart.data[3][1].inner = None
  /\ chart.data[1][1].inner # None

\* The errors for a missing required configuration that apply to a chart.
ConfigErrors(self) ==
  (IF ~self.keys_by.some /\ (self.kind # "Pizza" \/ self.series_by.some)
   THEN {<<"Keys must be defined">>} ELSE {}) \cup
  (IF ~self.series.some /\ ~self.series_by.some
   THEN {<<"Series must be defined">>} ELSE {})

\* C25: in render on Html, when a required configuration is missing (keys_by
\* for Bar/Line, keys_by in grouped mode, or both series and series_by), the
\* configuration error is returned before any row is read: no other error,
\* such as "Field <name> not found", is returned in its place, whatever the
\* other configured names and the data are.
C25_ConfigErrorFirst ==
  (/\ chart.call.op = "render" /\ chart.call.format = "Html"
   /\ ConfigErrors(chart.self) # {}) =>
    /\ ~chart.call.rendered.ok
    /\ chart.call.rendered.err \in ConfigErrors(chart.self)

\* The fields a chart takes its values from.
ValueFields(self) ==
  (IF self.series.some THEN {self.series.v[k] : k \in 1..Len(self.series.v)}
   ELSE {}) \cup
  (IF self.series_by.some THEN {self.series_by.v.values} ELSE {})

\* C26: whenever render derives keys and series successfully with keys_by
\* set, every series value vector is as long as the keys list and its
\* position i belongs to keys[i]: it is the value of a row whose key is
\* keys[i], or 0.0 (also in explicit series mode when rows share a key).
C26_SeriesAlignedWithKeys ==
  (/\ chart.call.op = "render"
   /\ chart.call.rendered.ok
   /\ chart.self.keys_by.some) =>
    LET series == chart.call.rendered.val.images[1].data.series
        keys == prepare_keys(chart.self, chart.data).val
    IN \A s \in 1..Len(series) :
         /\ Len(series[s].data) = Len(keys)
         /\ \A p \in 1..Len(keys) :
              \/ series[s].data[p] = 0
              \/ \E n \in 1..Len(chart.data), f \in ValueFields(chart.self) :
                   /\ KeyOf(chart.self.keys_by.v, n) = keys[p]
                   /\ series[s].data[p] = ValueOf(f, n)

\* ------------------------------------------------------- backend failures
\* C27: any backend failure while a query is executed or its result rows are
\* stepped through makes driver.fetch return Err for that query; fetch never
\* returns Ok with only the rows read before the failure.
C27_BackendFailureIsErr ==
  (call.op = "fetch" /\ call.before /\ call.fault # "none") => ~call.res.ok

\* ------------------------------------------------------ component pairing
\* The component of the configuration entry k.
OwnComponent(k) ==
  IF config.querys[k].chart.some THEN Chart(config.querys[k].chart.v)
  ELSE TableComponent

\* C28: every query result is paired with the component of its own
\* configuration entry: the Chart when the entry has a chart spec, the Table
\* when it has none, also when two configured queries are structurally equal
\* and differ in their chart spec.
C28_OwnComponent ==
  \A k \in 1..Len(config.ndata) :
    /\ config.ndata[k].query = to_query(config.querys[k])
    /\ config.ndata[k].comp = OwnComponent(k)

\* ------------------------------------------------- grouped series, same key
\* The last row of serie `serie` whose key is `key`.
LastRow(serie, key) ==
  CHOOSE n \in RowsOf(serie, key) : \A m \in RowsOf(serie, key) : m <= n

\* C29: in grouped series mode, when several rows have the same
\* series_by.key value and the same keys_by value, the value at that key's
\* position is the series_by.values of the last such row in row order: later
\* rows overwrite earlier ones, nothing is summed, the first is not kept.
C29_LastRowWins ==
  (/\ chart.call.op = "prepare_series"
   /\ chart.self.series_by.some /\ ~chart.self.series.some
   /\ chart.call.res.ok) =>
    LET series == chart.call.res.val
        keys == chart.call.keys
    IN \A s \in 1..Len(series), p \in 1..Len(keys) :
         RowsOf(series[s].name, keys[p]) # {} =>
           series[s].data[p] =
             ValueOf(chart.self.series_by.v.values,
                     LastRow(series[s].name, keys[p]))

\* Grouped series were derived from two rows of one serie and one key that
\* hold different values, neither of them 0.0, and the later one was stored.
C29_Witness ==
  /\ chart.call.op = "prepare_series"
  /\ chart.self.series_by.some /\ ~chart.self.series.some
  /\ chart.call.res.ok
  /\ \E s \in 1..Len(chart.call.res.val), p \in 1..Len(chart.call.keys) :
       \E n, m \in RowsOf(chart.call.res.val[s].name, chart.call.keys[p]) :
         /\ n < m
         /\ m = LastRow(chart.call.res.val[s].name, chart.call.keys[p])
         /\ ValueOf(chart.self.series_by.v.values, n) # 0
         /\ ValueOf(chart.self.series_by.v.values, m) # 0
         /\ ValueOf(chart.self.series_by.v.values, n) #
              ValueOf(chart.self.series_by.v.values, m)
         /\ chart.call.res.val[s].data[p] =
              ValueOf(chart.self.series_by.v.values, m)

\* ------------------------------------------------------------ absent keys
\* Row n of the data holds no value (NULL) in field `by`.
AbsentIn(by, n) ==
  LET row == chart.data[n] IN
  /\ FindValue(by, row) # 0
  /\ row[FindValue(by, row)].inner.tag = "None"

\* Every row of the data has field `by`.
RowsHave(by) == \A n \in 1..Len(chart.data) : FindValue(by, chart.data[n]) # 0

\* The positions of the empty text in a list of keys or of series names.
EmptyAt(names) == {p \in 1..Len(names) : names[p] = ""}

\* C30: in chart key and series derivation an absent (NULL) value of the
\* keys_by or series_by.key field is the key "": rows with an absent key and
\* rows whose key is the empty text fall into one single key or series, and
\* an absent key causes no error and no dropped row (the row's value is
\* stored like that of any other row of its serie and key).
C30_AbsentKeyIsEmpty ==
  /\ (/\ chart.call.op = "prepare_keys"
      /\ chart.self.keys_by.some
      /\ RowsHave(chart.self.keys_by.v)) =>
       /\ chart.call.res.ok
       /\ \A n \in 1..Len(chart.data) :
            (AbsentIn(chart.self.keys_by.v, n)
               \/ KeyOf(chart.self.keys_by.v, n) = "") =>
              Cardinality(EmptyAt(chart.call.res.val)) = 1
  /\ (/\ chart.call.op = "prepare_series"
      /\ chart.self.series_by.some /\ ~chart.self.series.some
      /\ chart.self.keys_by.some
      /\ RowsHave(chart.self.keys_by.v)
      /\ RowsHave(chart.self.series_by.v.key)
      /\ RowsHave(chart.self.series_by.v.values)) =>
       LET names == [s \in 1..Len(chart.call.res.val) |->
                       chart.call.res.val[s].name]
           keys == chart.call.keys
       IN /\ chart.call.res.ok
          /\ \A n \in 1..Len(chart.data) :
               /\ (AbsentIn(chart.self.series_by.v.key, n)
                     \/ KeyOf(chart.self.series_by.v.key, n) = "") =>
                    Cardinality(EmptyAt(names)) = 1
               /\ (AbsentIn(chart.self.keys_by.v, n)
                     \/ AbsentIn(chart.self.series_by.v.key, n)) =>
                    \A s \in 1..Len(names), p \in 1..Len(keys) :
                      (/\ names[s] = KeyOf(chart.self.series_by.v.key, n)
                       /\ keys[p] = KeyOf(chart.self.keys_by.v, n)) =>
                        chart.call.res.val[s].data[p] =
                          ValueOf(chart.self.series_by.v.values,
                                  LastRow(names[s], keys[p]))

\* Keys were derived from a row with an absent key, a row whose key is the
\* empty text and a row with another key: two keys, one of them "".
C30_Witness ==
  /\ chart.call.op = "prepare_keys"
  /\ chart.self.keys_by.some
  /\ chart.call.res.ok
  /\ Len(chart.call.res.val) = 2
  /\ Cardinality(EmptyAt(chart.call.res.val)) = 1
  /\ \E n, m \in 1..Len(chart.data) :
       /\ AbsentIn(chart.self.keys_by.v, n)
       /\ ~AbsentIn(chart.self.keys_by.v, m)
       /\ KeyOf(chart.self.keys_by.v, m) = ""

====
